---- MODULE Spec2Model ----
(***************************************************************************)
(* Sales analytics dashboard: the data cleaner (data_preprocessing.py),    *)
(* the data-loading guard of the server (dashboard/app.py, load_data),     *)
(* sequential and with one thread per request, the forecasting pipeline    *)
(* (prepare_time_series_features, predict_sales), the per-segment          *)
(* forecasts (predict_category_sales, predict_product_demand) and the      *)
(* chart endpoints sales_trends and revenue_heatmap.                       *)
(*                                                                         *)
(* Numbers.  A fractional quantity x of the program (a price, a tax rate,  *)
(* an age midpoint) is held as the integer 4*x, so the age midpoints       *)
(* (29.5, ...) and the median of two whole numbers or of two midpoints are *)
(* exact integers.  Whole quantities (sort orders, years, months, counts)  *)
(* are held as they are.                                                   *)
(*                                                                         *)
(* Text.  A string is a sequence of atoms: " " (one blank), "," (one       *)
(* comma) and words, a word being a non-empty run of characters with no    *)
(* blank and no comma in it.                                               *)
(***************************************************************************)
EXTENDS Integers, Sequences, FiniteSets, TLC

VARIABLES
    \* ---- data_preprocessing.py
    cpc,                     \* position of the cleaner script
    orders_df,               \* raw orders table (rows of cells)
    products_df,             \* raw products table
    orders_cleaned,
    products_cleaned,
    original_order_count,
    original_product_count,
    report,                  \* what the row-count verification printed
    saved,                   \* the two CSV files written
    \* ---- dashboard/app.py: the server
    csv_orders,              \* Order_Details_Cleaned.csv
    csv_products,            \* Product_Details_Cleaned.csv
    app_attrs,               \* the attributes set on app (hasattr)
    app_orders_df,
    app_products_df,
    app_merged_df,
    rpc,                     \* position of the request being served
    served,                  \* requests answered so far
    response,                \* the last response sent
    \* ---- dashboard/app.py: the locals of predict_sales
    monthly_data,
    df_features,
    train,                   \* X_train and y_train, row by row
    test,                    \* X_test and y_test, row by row
    metrics,                 \* y_pred_test, mae, rmse, r2, mape, accuracy
    next_features,           \* the feature vector of the next period
    hpc,                     \* position in the forecast code
    \* ---- dashboard/app.py: the locals of the per-segment endpoints
    route,                   \* the endpoint the request is for
    todo,                    \* the segments the loop has still to visit
    predictions,
    next_month_date,         \* unbound until a segment is forecast
    \* ---- dashboard/app.py: requests served by threads of their own
    threads                  \* position of each request thread

cleaner_vars == <<cpc, orders_df, products_df, orders_cleaned, products_cleaned,
                  original_order_count, original_product_count, report, saved>>

server_vars == <<csv_orders, csv_products, app_attrs, app_orders_df, app_products_df,
                 app_merged_df, rpc, served, response>>

batch_vars == <<route, todo, predictions, next_month_date>>

handler_vars == <<monthly_data, df_features, train, test, metrics, next_features, hpc,
                  batch_vars>>

vars == <<cleaner_vars, server_vars, handler_vars, threads>>

data_vars == <<csv_orders, csv_products, app_attrs, app_orders_df, app_products_df,
               app_merged_df>>

----------------------------------------------------------------------------
(* Bounds of the model *)

MaxRows == 3
MaxProducts == 2
MaxRequests == 2
MaxPeriods == 9

----------------------------------------------------------------------------
(* Cells of a table *)

NaN == [k |-> "nan"]
Num(n) == [k |-> "num", v |-> n]
Str(s) == [k |-> "str", v |-> s]
Date(y, m) == [k |-> "date", y |-> y, m |-> m]
Bool(b) == [k |-> "bool", v |-> b]

IsNull(c) == c.k = "nan"

Column(tbl, c) == [i \in 1..Len(tbl) |-> tbl[i][c]]

NonNull(col) == SelectSeq(col, LAMBDA c: ~IsNull(c))

\* the dtype pandas gives a column read from CSV: a column of numbers and
\* empty cells only (an all-empty column too) is float64
Dtype(col) ==
    IF \A i \in 1..Len(col): col[i].k \in {"nan", "num"} THEN "float64"
    ELSE "object"

\* a median that takes the lower of the two middle values
MedianLower(col) ==
    LET s == SortSeq([i \in 1..Len(NonNull(col)) |-> NonNull(col)[i].v],
                     LAMBDA a, b: a < b)
        n == Len(s)
    IN  IF n = 0 THEN NaN ELSE Num(s[(n + 1) \div 2])

\* Series.median(): the middle of the sorted non-null values, the mean of the
\* two middle ones when their count is even, NaN when there is none
Median(col) ==
    LET s == SortSeq([i \in 1..Len(NonNull(col)) |-> NonNull(col)[i].v],
                     LAMBDA a, b: a < b)
        n == Len(s)
    IN  IF n = 0 THEN NaN
        ELSE IF n % 2 = 1 THEN Num(s[(n + 1) \div 2])
        ELSE Num((s[n \div 2] + s[(n \div 2) + 1]) \div 2)

\* the atoms of the model in the order of Python's string comparison
AtomOrder ==
    <<" ", ",", "0.0", "18-24", "2024-02-10", "2024-11-03", "25-34", "35-44",
      "55+", "65+", "65-74", "Books", "EU", "France", "Japan", "Lyon", "No",
      "P1", "P2", "Paris", "Tokyo", "Toys", "Unknown", "Yes", "n/a", "nan">>

AtomRank(a) == CHOOSE i \in 1..Len(AtomOrder): AtomOrder[i] = a

RECURSIVE StrLess(_, _)
StrLess(s, t) ==
    IF s = <<>> THEN t # <<>>
    ELSE IF t = <<>> THEN FALSE
    ELSE IF s[1] = t[1] THEN StrLess(Tail(s), Tail(t))
    ELSE AtomRank(s[1]) < AtomRank(t[1])

Count(col, c) == Cardinality({i \in 1..Len(col): col[i] = c})

\* Series.mode(): the most frequent non-null values, sorted
ModeSet(col) ==
    LET nn == NonNull(col)
        vals == {nn[i] : i \in 1..Len(nn)}
    IN  {c \in vals: \A d \in vals: Count(nn, d) <= Count(nn, c)}

\* Series.mode()[0]
Mode0(col) ==
    CHOOSE c \in ModeSet(col): \A d \in ModeSet(col): d = c \/ StrLess(c.v, d.v)

\* the value the missing cells of a column are filled with
FillValue(col) ==
    IF Dtype(col) = "float64"
    THEN IF IsNull(Median(col)) THEN Num(0) ELSE Median(col)
    ELSE IF ModeSet(col) # {} THEN Mode0(col) ELSE Str(<<"Unknown">>)

Fillna(col, value) == [i \in 1..Len(col) |-> IF IsNull(col[i]) THEN value ELSE col[i]]

\* a cleaning that drops the rows with a missing cell instead of filling them
DropMissing(tbl) == SelectSeq(tbl, LAMBDA r: \A c \in DOMAIN r: ~IsNull(r[c]))

\* the loop over the columns: a column with a missing cell is filled
FillMissing(tbl) ==
    LET filled == [c \in DOMAIN tbl[1] |->
                      IF \E j \in 1..Len(tbl): IsNull(tbl[j][c])
                      THEN Fillna(Column(tbl, c), FillValue(Column(tbl, c)))
                      ELSE Column(tbl, c)]
    IN  [i \in 1..Len(tbl) |-> [c \in DOMAIN tbl[i] |-> filled[c][i]]]

\* tbl with column c set to col (added when new)
WithColumn(tbl, c, col) ==
    [i \in 1..Len(tbl) |->
        [d \in DOMAIN tbl[i] \cup {c} |-> IF d = c THEN col[i] ELSE tbl[i][d]]]

----------------------------------------------------------------------------
(* Text operations *)

RECURSIVE LStrip(_)
LStrip(s) == IF s # <<>> /\ s[1] = " " THEN LStrip(Tail(s)) ELSE s

RECURSIVE RStrip(_)
RStrip(s) ==
    IF s # <<>> /\ s[Len(s)] = " " THEN RStrip(SubSeq(s, 1, Len(s) - 1)) ELSE s

\* str.strip()
Strip(s) == RStrip(LStrip(s))

\* Series.str.strip(): a cell that holds no string becomes NaN
StrStrip(c) == IF c.k = "str" THEN Str(Strip(c.v)) ELSE NaN

\* astype(str): the only number a text column holds is the 0.0 an all-missing
\* column was filled with
AsStr(c) ==
    CASE c.k = "str" -> c
      [] c.k = "num" /\ c.v = 0 -> Str(<<"0.0">>)
      [] c.k = "nan" -> Str(<<"nan">>)

\* str.split(','): every comma separates
RECURSIVE SplitComma(_)
SplitComma(s) ==
    IF \A i \in 1..Len(s): s[i] # ","
    THEN <<s>>
    ELSE LET i == CHOOSE j \in 1..Len(s):
                      s[j] = "," /\ \A h \in 1..(j - 1): s[h] # ","
         IN  <<SubSeq(s, 1, i - 1)>> \o SplitComma(SubSeq(s, i + 1, Len(s)))

----------------------------------------------------------------------------
(* data_preprocessing.py: cleaning of the orders table *)

\* Series.map(dict): the value of the key the whole string equals, else NaN
MapDict(c, dict) ==
    IF c.k = "str" /\ Len(c.v) = 1 /\ c.v[1] \in DOMAIN dict
    THEN dict[c.v[1]] ELSE NaN

\* Series.replace(dict): a cell equal to a key is replaced, the others stay
ReplaceDict(c, dict) ==
    IF c.k = "str" /\ Len(c.v) = 1 /\ c.v[1] \in DOMAIN dict
    THEN dict[c.v[1]] ELSE c

age_standardization ==
    [a \in {"18-24", "25-34", "35-44", "45-54", "55+", "55-64", "65+", "55-74", "75+"} |->
        IF a \in {"18-24", "25-34", "35-44", "45-54"} THEN Str(<<a>>) ELSE Str(<<"55+">>)]

\* midpoints 21, 29.5, 39.5, 49.5, 60
age_mapping ==
    "18-24" :> Num(84) @@ "25-34" :> Num(118) @@ "35-44" :> Num(158) @@
    "45-54" :> Num(198) @@ "55+" :> Num(240)

age_order_mapping ==
    "18-24" :> Num(1) @@ "25-34" :> Num(2) @@ "35-44" :> Num(3) @@
    "45-54" :> Num(4) @@ "55+" :> Num(5)

\* the order filled in for an age group the mapping does not know
DefaultAgeOrder == 5

\* pd.to_datetime(errors='coerce'): a text that is no date becomes NaT; the
\* number 0 is the epoch
ToDatetime(c) ==
    CASE c = Str(<<"2024-02-10">>) -> Date(2024, 2)
      [] c = Str(<<"2024-11-03">>) -> Date(2024, 11)
      [] c = Num(0) -> Date(1970, 1)
      [] OTHER -> NaN

\* lines 74-80: the columns with 'date' or 'time' in their name
ConvertDates(tbl) ==
    WithColumn(tbl, "Date", [i \in 1..Len(tbl) |-> ToDatetime(tbl[i].Date)])

\* lines 89-104: trim, then map the variant labels onto the canonical ones
StandardizeAgeGroup(tbl) ==
    WithColumn(tbl, "Customer_Age_Group",
        [i \in 1..Len(tbl) |->
            ReplaceDict(StrStrip(AsStr(tbl[i].Customer_Age_Group)), age_standardization)])

\* lines 117-122: the midpoint of the bucket; unmapped rows get the median
AgeNumeric(tbl) ==
    LET mapped == [i \in 1..Len(tbl) |-> MapDict(tbl[i].Customer_Age_Group, age_mapping)]
    IN  WithColumn(tbl, "Customer_Age_Numeric",
            IF \E i \in 1..Len(tbl): IsNull(mapped[i])
            THEN Fillna(mapped, Median(mapped))
            ELSE mapped)

\* lines 128-138
AgeGroupOrder(tbl) ==
    LET mapped == [i \in 1..Len(tbl) |-> MapDict(tbl[i].Customer_Age_Group, age_order_mapping)]
    IN  WithColumn(tbl, "Age_Group_Order",
            IF \E i \in 1..Len(tbl): IsNull(mapped[i])
            THEN Fillna(mapped, Num(DefaultAgeOrder))
            ELSE mapped)

\* lines 145-147 and 207-209: str.strip() on every column of dtype object
TrimObjectColumns(tbl) ==
    [i \in 1..Len(tbl) |->
        [c \in DOMAIN tbl[i] |->
            IF \E j \in 1..Len(tbl): tbl[j][c].k = "str"
            THEN StrStrip(tbl[i][c]) ELSE tbl[i][c]]]

\* lines 150-152
SeasonalityBool(tbl) ==
    WithColumn(tbl, "Seasonality_Bool",
        [i \in 1..Len(tbl) |->
            MapDict(tbl[i].Seasonality, "Yes" :> Bool(TRUE) @@ "No" :> Bool(FALSE))])

\* str.split(',', expand=True): one column per part, a row with fewer parts
\* holds None in the columns it has no part for
LocationSplit(tbl) ==
    [i \in 1..Len(tbl) |-> SplitComma(AsStr(tbl[i].Customer_Location).v)]

\* location_split[j] with .str.strip(): column j (from 0) of the split
SplitColumn(split, j) ==
    [i \in 1..Len(split) |->
        IF Len(split[i]) > j THEN Str(Strip(split[i][j + 1])) ELSE NaN]

\* location_split.shape[1]
SplitWidth(split) ==
    CHOOSE w \in 0..20:
        /\ \A i \in 1..Len(split): Len(split[i]) <= w
        /\ (w > 0 => \E i \in 1..Len(split): Len(split[i]) = w)

\* lines 155-162
SplitLocation(tbl) ==
    LET split == LocationSplit(tbl)
    IN  WithColumn(
            WithColumn(tbl, "Customer_City", SplitColumn(split, 0)),
            "Customer_Country",
            IF SplitWidth(split) > 1 THEN SplitColumn(split, 1)
            ELSE [i \in 1..Len(tbl) |-> Str(<<"Unknown">>)])

\* lines 165-172 (Year, Month, Quarter; the other calendar columns are
\* likewise one cell per row read off the Date cell)
TimeFeatures(tbl) ==
    LET d(i) == tbl[i].Date
    IN  [i \in 1..Len(tbl) |->
            [c \in DOMAIN tbl[i] \cup {"Year", "Month", "Quarter"} |->
                CASE c = "Year" -> IF d(i).k = "date" THEN Num(d(i).y) ELSE NaN
                  [] c = "Month" -> IF d(i).k = "date" THEN Num(d(i).m) ELSE NaN
                  [] c = "Quarter" ->
                        IF d(i).k = "date" THEN Num(((d(i).m - 1) \div 3) + 1) ELSE NaN
                  [] OTHER -> tbl[i][c]]]

\* line 212: Unit Price * (1 + Tax Rate / 100); with both held as 4*x the
\* product is held as 1600*x
PriceWithTax(tbl) ==
    WithColumn(tbl, "Price_With_Tax",
        [i \in 1..Len(tbl) |->
            IF tbl[i].Unit_Price.k = "num" /\ tbl[i].Tax_Rate.k = "num"
            THEN Num(tbl[i].Unit_Price.v * (400 + tbl[i].Tax_Rate.v))
            ELSE NaN])

----------------------------------------------------------------------------
(* data_preprocessing.py: the script, one action per step *)

Row(price, age, location, date, seasonality) ==
    [Net_Price |-> price, Customer_Age_Group |-> age, Customer_Location |-> location,
     Date |-> date, Seasonality |-> seasonality]

\* the rows the raw orders table is made of
OrderRows ==
    { Row(Num(4), Str(<<"18-24">>), Str(<<"Paris", ",", " ", "France">>),
          Str(<<"2024-02-10">>), Str(<<"Yes">>)),
      Row(NaN, Str(<<" ", "65+">>), Str(<<"Tokyo">>), Str(<<"n/a">>), Str(<<"No">>)),
      Row(Num(12), Str(<<"65-74">>), Str(<<"Lyon", ",", "France", ",", "EU">>), NaN, NaN),
      Row(NaN, NaN, NaN, NaN, NaN),
      Row(Num(8), Str(<<"35-44", " ">>), Str(<<" ", "Tokyo", " ", ",", "Japan">>),
          Str(<<"2024-11-03">>), Str(<<"Yes">>)) }

ProductRow(id, category, price, tax) ==
    [Product_ID |-> id, Category |-> category, Unit_Price |-> price, Tax_Rate |-> tax]

\* the rows the raw products table is made of
ProductRows ==
    { ProductRow(Str(<<"P1">>), Str(<<" ", "Books">>), Num(40), Num(40)),
      ProductRow(Str(<<"P2">>), NaN, NaN, Num(80)) }

Tables(rows, n) == UNION {[1..m -> rows] : m \in 1..n}

\* the server is not running
\* the request threads
Threads == {1, 2}

\* requests are served one at a time
NoThreads == threads = [t \in Threads |-> "off"]

ServerIdle ==
    /\ csv_orders = <<>>
    /\ csv_products = <<>>
    /\ app_attrs = {}
    /\ app_orders_df = <<>>
    /\ app_products_df = <<>>
    /\ app_merged_df = <<>>
    /\ rpc = "off"
    /\ served = 0
    /\ response = <<>>

\* no forecast is being computed
\* a local variable that has not been assigned
Unbound == [k |-> "unbound"]

\* a local variable that holds the first day of month m
Month(m) == [k |-> "month", m |-> m]

BatchIdle ==
    /\ route = "none"
    /\ todo = <<>>
    /\ predictions = <<>>
    /\ next_month_date = Unbound

HandlerIdle ==
    /\ monthly_data = <<>>
    /\ df_features = <<>>
    /\ train = <<>>
    /\ test = <<>>
    /\ metrics = <<>>
    /\ next_features = <<>>
    /\ hpc = "off"
    /\ BatchIdle

\* lines 15-16: the two CSV files are read
CleanerInit ==
    /\ NoThreads
    /\ cpc = "copy_orders"
    /\ orders_df \in Tables(OrderRows, MaxRows)
    /\ products_df \in Tables(ProductRows, MaxProducts)
    /\ orders_cleaned = <<>>
    /\ products_cleaned = <<>>
    /\ original_order_count = 0
    /\ original_product_count = 0
    /\ report = <<>>
    /\ saved = <<>>
    /\ ServerIdle
    /\ HandlerIdle

\* a step of the orders cleaning: orders_cleaned := f(orders_cleaned)
OrdersStep(at, next, result) ==
    /\ cpc = at
    /\ cpc' = next
    /\ orders_cleaned' = result
    /\ UNCHANGED <<threads, server_vars, handler_vars, orders_df, products_df, products_cleaned, original_order_count,
                   original_product_count, report, saved>>

ProductsStep(at, next, result) ==
    /\ cpc = at
    /\ cpc' = next
    /\ products_cleaned' = result
    /\ UNCHANGED <<threads, server_vars, handler_vars, orders_df, products_df, orders_cleaned, original_order_count,
                   original_product_count, report, saved>>

\* lines 44-47
CopyOrders ==
    /\ cpc = "copy_orders"
    /\ cpc' = "fill_orders"
    /\ orders_cleaned' = orders_df
    /\ original_order_count' = Len(orders_df)
    /\ UNCHANGED <<threads, server_vars, handler_vars, orders_df, products_df, products_cleaned, original_product_count,
                   report, saved>>

FillOrders == OrdersStep("fill_orders", "dates", FillMissing(orders_cleaned))

DoConvertDates == OrdersStep("dates", "age_group", ConvertDates(orders_cleaned))

DoStandardizeAge == OrdersStep("age_group", "age_numeric", StandardizeAgeGroup(orders_cleaned))

DoAgeNumeric == OrdersStep("age_numeric", "age_order", AgeNumeric(orders_cleaned))

DoAgeOrder == OrdersStep("age_order", "trim_orders", AgeGroupOrder(orders_cleaned))

TrimOrders == OrdersStep("trim_orders", "seasonality", TrimObjectColumns(orders_cleaned))

DoSeasonality == OrdersStep("seasonality", "location", SeasonalityBool(orders_cleaned))

DoSplitLocation == OrdersStep("location", "calendar", SplitLocation(orders_cleaned))

DoTimeFeatures == OrdersStep("calendar", "copy_products", TimeFeatures(orders_cleaned))

\* lines 176-179
CopyProducts ==
    /\ cpc = "copy_products"
    /\ cpc' = "fill_products"
    /\ products_cleaned' = products_df
    /\ original_product_count' = Len(products_df)
    /\ UNCHANGED <<threads, server_vars, handler_vars, orders_df, products_df, orders_cleaned, original_order_count,
                   report, saved>>

FillProducts == ProductsStep("fill_products", "trim_products", FillMissing(products_cleaned))

TrimProducts == ProductsStep("trim_products", "price_tax", TrimObjectColumns(products_cleaned))

DoPriceWithTax == ProductsStep("price_tax", "verify", PriceWithTax(products_cleaned))

\* lines 216-231: the row counts are compared and the outcome printed
Verify ==
    /\ cpc = "verify"
    /\ cpc' = "save"
    /\ report' = [orders |-> IF Len(orders_cleaned) = original_order_count
                             THEN "SUCCESS" ELSE "WARNING",
                  products |-> IF Len(products_cleaned) = original_product_count
                               THEN "SUCCESS" ELSE "WARNING"]
    /\ UNCHANGED <<threads, server_vars, handler_vars, orders_df, products_df, orders_cleaned, products_cleaned,
                   original_order_count, original_product_count, saved>>

\* lines 235-236
Save ==
    /\ cpc = "save"
    /\ cpc' = "done"
    /\ saved' = [orders |-> orders_cleaned, products |-> products_cleaned]
    /\ UNCHANGED <<threads, server_vars, handler_vars, orders_df, products_df, orders_cleaned, products_cleaned,
                   original_order_count, original_product_count, report>>

CleanerNext ==
    \/ CopyOrders
    \/ FillOrders
    \/ DoConvertDates
    \/ DoStandardizeAge
    \/ DoAgeNumeric
    \/ DoAgeOrder
    \/ TrimOrders
    \/ DoSeasonality
    \/ DoSplitLocation
    \/ DoTimeFeatures
    \/ CopyProducts
    \/ FillProducts
    \/ TrimProducts
    \/ DoPriceWithTax
    \/ Verify
    \/ Save

SpecClean == CleanerInit /\ [][CleanerNext]_vars

----------------------------------------------------------------------------
(* dashboard/app.py: the data-loading guard and the request cycle *)

\* a row of Order_Details_Cleaned.csv: the product reference, the month of
\* the date (months counted from January 2024 = 1) and the net price
OrderRecord(id, month, price) == [Product_ID |-> id, Date |-> month, Net_Price |-> price]

\* a row of Product_Details_Cleaned.csv
ProductRecord(id, category) == [Product_ID |-> id, Category |-> category]

CsvOrderRows ==
    { OrderRecord(Str(<<"P1">>), 1, 4),
      OrderRecord(Str(<<"P2">>), 1, 8),
      OrderRecord(Str(<<"P3">>), 2, 4) }

CsvProductRows ==
    { ProductRecord(Str(<<"P1">>), Str(<<"Books">>)),
      ProductRecord(Str(<<"P1">>), Str(<<"Toys">>)),
      ProductRecord(Str(<<"P2">>), Str(<<"Books">>)) }

\* the index of the first row of tbl with the Product ID of row i
FirstWithId(tbl, i) ==
    CHOOSE j \in 1..i:
        /\ tbl[j].Product_ID = tbl[i].Product_ID
        /\ \A h \in 1..(j - 1): tbl[h].Product_ID # tbl[i].Product_ID

\* a load that keeps every product row
KeepDuplicates(tbl) == tbl

\* drop_duplicates(subset=['Product ID']): the first row of each Product ID
\* is kept, in the order of the table
DropDuplicates(tbl) ==
    LET keep == {i \in 1..Len(tbl): FirstWithId(tbl, i) = i}
        RECURSIVE Kept(_)
        Kept(i) == IF i > Len(tbl) THEN <<>>
                   ELSE (IF i \in keep THEN <<tbl[i]>> ELSE <<>>) \o Kept(i + 1)
    IN  Kept(1)

\* the merged row of an order and a product row: the columns of both, the
\* key once
Joined(o, p) == o @@ p

\* the right-hand columns of a left row that no right row matches
MissingRight(right) ==
    [c \in (IF right = <<>> THEN {} ELSE DOMAIN right[1]) \ {"Product_ID"} |-> NaN]

\* merge(on='Product ID', how='left'): for each left row in order, one row
\* per right row with the same key, or one row with missing right columns
RECURSIVE LeftMerge(_, _)
LeftMerge(left, right) ==
    IF left = <<>> THEN <<>>
    ELSE LET o == Head(left)
             matches == SelectSeq(right, LAMBDA q: q.Product_ID = o.Product_ID)
         IN  (IF matches = <<>> THEN <<Joined(o, MissingRight(right))>>
              ELSE [j \in 1..Len(matches) |-> Joined(o, matches[j])])
             \o LeftMerge(Tail(left), right)

\* Series.nunique()
NUnique(tbl, c) == Cardinality({tbl[i][c] : i \in 1..Len(tbl)})

\* a file that is missing or that read_csv cannot parse
Unreadable == <<[k |-> "unreadable"]>>

\* the answer to a request whose exception no handler catches: the
\* framework's own failure page, not a JSON payload
Uncaught(message) == [traceback |-> message, status |-> 500]

\* the server starts: nothing is loaded, the two cleaned files exist
ServerInit ==
    /\ csv_orders \in Tables(CsvOrderRows, MaxRows)
    /\ csv_products \in Tables(CsvProductRows, MaxProducts)
    /\ app_attrs = {}
    /\ app_orders_df = <<>>
    /\ app_products_df = <<>>
    /\ app_merged_df = <<>>
    /\ rpc = "idle"
    /\ served = 0
    /\ response = <<>>

CleanerIdle ==
    /\ cpc = "off"
    /\ orders_df = <<>>
    /\ products_df = <<>>
    /\ orders_cleaned = <<>>
    /\ products_cleaned = <<>>
    /\ original_order_count = 0
    /\ original_product_count = 0
    /\ report = <<>>
    /\ saved = <<>>

\* a request arrives; before_request runs load_data first
Request ==
    /\ rpc = "idle"
    /\ served < MaxRequests
    /\ rpc' = "load_data"
    /\ UNCHANGED <<threads, cleaner_vars, handler_vars, csv_orders, csv_products, app_attrs, app_orders_df,
                   app_products_df, app_merged_df, served, response>>

\* a load_data without the guard
AlwaysLoad ==
    /\ rpc = "load_data"
    /\ rpc' = "read_orders"
    /\ UNCHANGED <<threads, cleaner_vars, handler_vars, csv_orders, csv_products, app_attrs, app_orders_df,
                   app_products_df, app_merged_df, served, response>>

\* line 21: if not hasattr(app, 'orders_df')
LoadGuard ==
    /\ rpc = "load_data"
    /\ rpc' = IF "orders_df" \in app_attrs THEN "handler" ELSE "read_orders"
    /\ UNCHANGED <<threads, cleaner_vars, handler_vars, csv_orders, csv_products, app_attrs, app_orders_df,
                   app_products_df, app_merged_df, served, response>>

\* line 26
ReadOrders ==
    /\ rpc = "read_orders"
    /\ csv_orders # Unreadable
    /\ app_orders_df' = csv_orders
    /\ app_attrs' = app_attrs \cup {"orders_df"}
    /\ rpc' = "read_products"
    /\ UNCHANGED <<threads, cleaner_vars, handler_vars, csv_orders, csv_products, app_products_df,
                   app_merged_df, served, response>>

\* line 27
ReadProducts ==
    /\ rpc = "read_products"
    /\ csv_products # Unreadable
    /\ app_products_df' = csv_products
    /\ app_attrs' = app_attrs \cup {"products_df"}
    /\ rpc' = "drop_duplicates"
    /\ UNCHANGED <<threads, cleaner_vars, handler_vars, csv_orders, csv_products, app_orders_df,
                   app_merged_df, served, response>>

\* line 29
DoDropDuplicates ==
    /\ rpc = "drop_duplicates"
    /\ app_products_df' = DropDuplicates(app_products_df)
    /\ rpc' = "merge"
    /\ UNCHANGED <<threads, cleaner_vars, handler_vars, csv_orders, csv_products, app_attrs, app_orders_df,
                   app_merged_df, served, response>>

\* line 32
DoMerge ==
    /\ rpc = "merge"
    /\ app_merged_df' = LeftMerge(app_orders_df, app_products_df)
    /\ app_attrs' = app_attrs \cup {"merged_df"}
    /\ rpc' = "handler"
    /\ UNCHANGED <<threads, cleaner_vars, handler_vars, csv_orders, csv_products, app_orders_df,
                   app_products_df, served, response>>

\* lines 39-54: the overview endpoint answers from the loaded tables
OverviewStats ==
    /\ rpc = "handler"
    /\ response' = [total_orders |-> Len(app_orders_df),
                    total_products |-> NUnique(app_products_df, "Product_ID"),
                    total_customers |-> Len(app_orders_df)]
    /\ served' = served + 1
    /\ rpc' = "idle"
    /\ UNCHANGED <<threads, cleaner_vars, handler_vars, csv_orders, csv_products, app_attrs, app_orders_df,
                   app_products_df, app_merged_df>>

\* lines 26-27: read_csv raises; load_data runs before the handler and
\* outside its try, so the exception is answered by the framework
LoadFails ==
    /\ \/ rpc = "read_orders" /\ csv_orders = Unreadable
       \/ rpc = "read_products" /\ csv_products = Unreadable
    /\ response' = Uncaught("read_csv")
    /\ served' = served + 1
    /\ rpc' = "idle"
    /\ UNCHANGED <<threads, cleaner_vars, handler_vars, csv_orders, csv_products, app_attrs,
                   app_orders_df, app_products_df, app_merged_df>>

LoadNext ==
    \/ Request
    \/ LoadGuard
    \/ ReadOrders
    \/ ReadProducts
    \/ DoDropDuplicates
    \/ DoMerge
    \/ OverviewStats

LoadInit == ServerInit /\ CleanerIdle /\ HandlerIdle /\ NoThreads

SpecLoad == LoadInit /\ [][LoadNext]_vars

----------------------------------------------------------------------------
(* dashboard/app.py: prepare_time_series_features *)

\* A date is the first day of a month, held as the number of the month
\* counted from January 2024 = 1.
YearOf(m) == 2024 + ((m - 1) \div 12)

MonthOf(m) == ((m - 1) % 12) + 1

QuarterOf(m) == ((MonthOf(m) - 1) \div 3) + 1

IsLeap(y) == (y % 4 = 0 /\ y % 100 # 0) \/ y % 400 = 0

DaysInMonth(y, mo) ==
    IF mo = 2 THEN (IF IsLeap(y) THEN 29 ELSE 28)
    ELSE IF mo \in {4, 6, 9, 11} THEN 30 ELSE 31

RECURSIVE DaysBefore(_, _)
DaysBefore(y, mo) == IF mo = 1 THEN 0 ELSE DaysBefore(y, mo - 1) + DaysInMonth(y, mo - 1)

\* dt.dayofyear of the first day of month m
DayOfYear(m) == DaysBefore(YearOf(m), MonthOf(m)) + 1

RECURSIVE DaysSince2024(_)
DaysSince2024(m) == IF m = 1 THEN 0 ELSE DaysSince2024(m - 1) + DaysInMonth(YearOf(m - 1), MonthOf(m - 1))

\* ISO weekday (Monday = 1) of the first day of month m; 2024-01-01 is a Monday
WeekDay(m) == (DaysSince2024(m) % 7) + 1

\* dt.isocalendar().week of the first day of month m (months of 2024 on)
WeekOfYear(m) ==
    LET w == (DayOfYear(m) - WeekDay(m) + 10) \div 7
        jan1 == WeekDay(m - MonthOf(m) + 1)
        weeks == IF jan1 = 4 \/ (IsLeap(YearOf(m)) /\ jan1 = 3) THEN 53 ELSE 52
    IN  IF w < 1 THEN 52 ELSE IF w > weeks THEN 1 ELSE w

\* the exact quotient n / d of two integers, d > 0
Frac(n, d) == [k |-> "frac", n |-> n, d |-> d]

\* the square root of n / d
Sqrt(n, d) == [k |-> "sqrt", n |-> n, d |-> d]

\* floating-point infinity
Inf == [k |-> "inf"]

RECURSIVE SumSeq(_)
SumSeq(xs) == IF xs = <<>> THEN 0 ELSE Head(xs) + SumSeq(Tail(xs))

\* Series.shift(by): the value by rows earlier, undefined for the leading rows
Shift(vals, i, by) == IF i > by THEN Num(vals[i - by]) ELSE NaN

\* the trailing window of w values ending at row i
Window(vals, i, w) == SubSeq(vals, IF i > w THEN i - w + 1 ELSE 1, i)

\* mean() of values; NaN when there is none
MeanOf(xs) == IF xs = <<>> THEN NaN ELSE Frac(SumSeq(xs), Len(xs))

\* std() of values (ddof = 1): NaN with fewer than two values
StdOf(xs) ==
    IF Len(xs) < 2 THEN NaN
    ELSE Sqrt(Len(xs) * SumSeq([i \in 1..Len(xs) |-> xs[i] * xs[i]]) - SumSeq(xs) * SumSeq(xs),
              Len(xs) * (Len(xs) - 1))

\* a preparation that shifts the rows as they come, unsorted
KeepRowOrder(df) == df

\* df.sort_values(date_col)
SortByDate(df) == SortSeq(df, LAMBDA a, b: a.Date < b.Date)

\* lines 613-626: the columns of the row are kept, the feature columns added
FeatureRow(r, vals, i) ==
    r @@
    [year |-> YearOf(r.Date), month |-> MonthOf(r.Date), quarter |-> QuarterOf(r.Date),
     day_of_year |-> DayOfYear(r.Date), week_of_year |-> WeekOfYear(r.Date),
     lag_1 |-> Shift(vals, i, 1), lag_2 |-> Shift(vals, i, 2), lag_3 |-> Shift(vals, i, 3),
     rolling_mean_3 |-> MeanOf(Window(vals, i, 3)),
     rolling_std_3 |-> StdOf(Window(vals, i, 3)),
     rolling_mean_6 |-> MeanOf(Window(vals, i, 6))]

\* lines 607-629; date_col is 'Date' at every call
prepare_time_series_features(df, value_col) ==
    LET sorted == SortByDate(df)
        vals == [i \in 1..Len(sorted) |-> sorted[i][value_col]]
    IN  [i \in 1..Len(sorted) |-> FeatureRow(sorted[i], vals, i)]

NullableColumns ==
    {"lag_1", "lag_2", "lag_3", "rolling_mean_3", "rolling_std_3", "rolling_mean_6"}

\* a truncation that keeps every row
KeepNa(df) == df

\* df.dropna(): the rows with no undefined cell (the period, the revenue, the
\* order count and the calendar columns of a period row are always defined)
DropNa(df) == SelectSeq(df, LAMBDA r: \A c \in NullableColumns: ~IsNull(r[c]))

\* a period series as groupby builds it: one row per month, months ascending
PeriodRow(m, v) == [Date |-> m, Revenue |-> v, Orders |-> 1]

RevenueValues == {0, 8}

\* the month of the i-th period: consecutive months, or a month without
\* orders after the first period
MonthAt(i, gap) == IF gap /\ i > 1 THEN i + 1 ELSE i

\* the row orders a series is handed over in
RowOrders == {"ascending", "descending", "rotated"}

Reorder(rows, order) ==
    LET n == Len(rows)
    IN  CASE order = "ascending" -> rows
          [] order = "descending" -> [i \in 1..n |-> rows[n + 1 - i]]
          [] order = "rotated" -> [i \in 1..n |-> rows[((i + (n \div 2) - 1) % n) + 1]]

PeriodSeries ==
    UNION {{[i \in 1..n |-> PeriodRow(MonthAt(i, gap), v[i])] : v \in [1..n -> RevenueValues]}
           : n \in 0..MaxPeriods, gap \in BOOLEAN}

\* prepare_time_series_features is handed a period series in some row order
FeaturesInit ==
    /\ NoThreads
    /\ CleanerIdle
    /\ ServerIdle
    /\ \E series \in PeriodSeries, order \in RowOrders:
          monthly_data = Reorder(series, order)
    /\ df_features = <<>>
    /\ train = <<>>
    /\ test = <<>>
    /\ metrics = <<>>
    /\ next_features = <<>>
    /\ BatchIdle
    /\ hpc = "prepare"

\* line 647 (and 750, 830): df_features = prepare_time_series_features(...)
PrepareFeatures ==
    /\ hpc = "prepare"
    /\ df_features' = prepare_time_series_features(monthly_data, "Revenue")
    /\ hpc' = "dropna"
    /\ UNCHANGED <<threads, cleaner_vars, server_vars, monthly_data, train, test, metrics,
                   next_features, batch_vars>>

\* line 648 (and 751, 831): df_features = df_features.dropna()
Truncate ==
    /\ hpc = "dropna"
    /\ df_features' = DropNa(df_features)
    /\ hpc' = "split"
    /\ UNCHANGED <<threads, cleaner_vars, server_vars, monthly_data, train, test, metrics,
                   next_features, batch_vars>>

FeaturesNext ==
    \/ PrepareFeatures
    \/ Truncate

SpecFeatures == FeaturesInit /\ [][FeaturesNext]_vars

----------------------------------------------------------------------------
(* dashboard/app.py: predict_sales *)

RECURSIVE SortedSeqOf(_)
SortedSeqOf(S) ==
    IF S = {} THEN <<>>
    ELSE LET least == CHOOSE x \in S: \A y \in S: x <= y
         IN  <<least>> \o SortedSeqOf(S \ {least})

\* lines 638-644: one row per month that has orders, months ascending, the
\* net prices summed and the orders counted
MonthlyAggregate(orders) ==
    LET keys == SortedSeqOf({orders[i].Date : i \in 1..Len(orders)})
        of(m) == SelectSeq(orders, LAMBDA o: o.Date = m)
    IN  [g \in 1..Len(keys) |->
            [Date |-> keys[g],
             Revenue |-> SumSeq([i \in 1..Len(of(keys[g])) |-> of(keys[g])[i].Net_Price]),
             Orders |-> Len(of(keys[g]))]]

\* line 657: int(len(X) * 0.8); the double product n * 0.8 is never below
\* the exact 4n/5, and truncates to its floor
SplitIdx(n) == (4 * n) \div 5

\* a split that trains on the last split_idx rows
TrainTail(df) == SubSeq(df, Len(df) - SplitIdx(Len(df)) + 1, Len(df))

\* lines 658-659: X[:split_idx], y[:split_idx]
TrainRows(df) == SubSeq(df, 1, SplitIdx(Len(df)))

\* lines 658-659: X[split_idx:], y[split_idx:]
TestRows(df) == SubSeq(df, SplitIdx(Len(df)) + 1, Len(df))

\* the values a fitted regressor may return
PredValues == {0, 8, 24}

Abs(x) == IF x < 0 THEN -x ELSE x

RECURSIVE ProdSeq(_)
ProdSeq(xs) == IF xs = <<>> THEN 1 ELSE Head(xs) * ProdSeq(Tail(xs))

\* np.abs((y - p) / y): 0/0 is NaN, a non-zero error over 0 is infinite
AbsPctError(y, p) ==
    IF y = 0 THEN (IF p = 0 THEN NaN ELSE Inf) ELSE Frac(Abs(y - p), Abs(y))

\* np.mean of a Series of quotients, times 100: the undefined elements are
\* skipped; NaN when none is left, infinite when one is infinite
MeanTimes100(qs) ==
    LET def == SelectSeq(qs, LAMBDA q: ~IsNull(q))
    IN  IF def = <<>> THEN NaN
        ELSE IF \E i \in 1..Len(def): def[i] = Inf THEN Inf
        ELSE Frac(100 * SumSeq([i \in 1..Len(def) |->
                                   def[i].n * ProdSeq([j \in 1..Len(def) |->
                                                          IF j = i THEN 1 ELSE def[j].d])]),
                  Len(def) * ProdSeq([j \in 1..Len(def) |-> def[j].d]))

\* line 670
Mape(ys, ps) == MeanTimes100([i \in 1..Len(ys) |-> AbsPctError(ys[i], ps[i])])

\* an accuracy that is not clamped at 0
Unclamped(mape) ==
    IF mape.k = "frac" THEN Frac(100 * mape.d - mape.n, mape.d) ELSE Frac(0, 1)

\* line 671: max(0, 100 - mape); Python's max keeps the 0 unless the other
\* argument compares greater, so a NaN or infinite mape gives 0
Accuracy(mape) ==
    IF mape.k = "frac" /\ 100 * mape.d - mape.n > 0
    THEN Frac(100 * mape.d - mape.n, mape.d)
    ELSE Frac(0, 1)

\* line 667
MeanAbsoluteError(ys, ps) ==
    Frac(SumSeq([i \in 1..Len(ys) |-> Abs(ys[i] - ps[i])]), Len(ys))

SquaredError(ys, ps) == SumSeq([i \in 1..Len(ys) |-> (ys[i] - ps[i]) * (ys[i] - ps[i])])

\* line 668
Rmse(ys, ps) == Sqrt(SquaredError(ys, ps), Len(ys))

\* line 669: r2_score; undefined for fewer than two samples, and 1 or 0 when
\* the true values do not vary
R2Score(ys, ps) ==
    LET n == Len(ys)
        tot == n * SumSeq([i \in 1..n |-> ys[i] * ys[i]]) - SumSeq(ys) * SumSeq(ys)
        res == n * SquaredError(ys, ps)
    IN  IF n < 2 THEN NaN
        ELSE IF tot = 0 THEN (IF res = 0 THEN Frac(1, 1) ELSE Frac(0, 1))
        ELSE Frac(tot - res, tot)

\* df[value_col]
ValuesOf(df, value_col) == [i \in 1..Len(df) |-> df[i][value_col]]

RevenueOf(df) == ValuesOf(df, "Revenue")

\* Series.tail(n)
Tail_(xs, n) == SubSeq(xs, IF Len(xs) > n THEN Len(xs) - n + 1 ELSE 1, Len(xs))

\* a next feature vector that repeats the lags of the last feature row
StaleFeatures(df, value_col) ==
    [c \in {"Date", "year", "month", "quarter", "day_of_year", "week_of_year", "lag_1",
            "lag_2", "lag_3", "rolling_mean_3", "rolling_std_3", "rolling_mean_6"} |->
        IF c = "Date" THEN df[Len(df)].Date + 1 ELSE df[Len(df)][c]]

\* lines 674-690: the feature vector of the month after the last feature row
NextFeatures(df, value_col) ==
    LET last_row == df[Len(df)]
        next_date == last_row.Date + 1
    IN  [Date |-> next_date,
         year |-> YearOf(next_date), month |-> MonthOf(next_date),
         quarter |-> QuarterOf(next_date),
         day_of_year |-> DayOfYear(next_date),
         week_of_year |-> WeekOfYear(next_date),
         lag_1 |-> Num(last_row[value_col]),
         lag_2 |-> last_row.lag_1,
         lag_3 |-> last_row.lag_2,
         rolling_mean_3 |-> MeanOf(Tail_(ValuesOf(df, value_col), 3)),
         rolling_std_3 |-> StdOf(Tail_(ValuesOf(df, value_col), 3)),
         rolling_mean_6 |-> MeanOf(Tail_(ValuesOf(df, value_col), 6))]

\* (a - b) / b * 100 in floating point
GrowthRate(a, b) ==
    IF b = 0 THEN (IF a = 0 THEN NaN ELSE Inf) ELSE Frac(100 * (a - b), b)

\* lines 698-718
Result(df, m, next, predicted) ==
    [predicted_revenue |-> predicted,
     predicted_month |-> next.Date,
     accuracy |-> m.accuracy, mae |-> m.mae, rmse |-> m.rmse,
     r2_score |-> m.r2, mape |-> m.mape,
     last_month_revenue |-> df[Len(df)].Revenue,
     last_month |-> df[Len(df)].Date,
     avg_last_3_months |-> MeanOf(Tail_(RevenueOf(df), 3)),
     avg_last_6_months |-> MeanOf(Tail_(RevenueOf(df), 6)),
     growth_rate |-> GrowthRate(predicted, df[Len(df)].Revenue),
     recent_trend |-> [i \in 1..Len(Tail_(df, 6)) |->
                          [month |-> Tail_(df, 6)[i].Date, revenue |-> Tail_(df, 6)[i].Revenue]]]

\* the largest amount a float32 holds, in the unit the amounts are held in
Float32Max == 1000

\* a cell whose amount does not fit a float32
ExceedsFloat32(c) ==
    CASE c.k = "num" -> Abs(c.v) > Float32Max
      [] c.k = "frac" -> Abs(c.n) > Float32Max * c.d
      [] c.k = "sqrt" -> c.n > Float32Max * Float32Max * c.d
      [] OTHER -> FALSE

\* fit and predict convert X to float32 and raise ValueError when a value
\* is not finite there; the calendar columns are small, the amount columns
\* are the lag and rolling columns
NotFinite32(X) ==
    \E i \in 1..Len(X): \E c \in NullableColumns: ExceedsFloat32(X[i][c])

\* line 723
ErrorResponse(message) == [error |-> message, status |-> 500]

\* the orders of a forecast request: one order per month, or the rows in
\* descending order with a month without orders and a second order in the
\* last month
ForecastOrders ==
    LET plain(n, v) == [i \in 1..n |-> OrderRecord(Str(<<"P1">>), i, v[i])]
        mixed(n, v) ==
            IF n = 0 THEN <<>>
            ELSE <<OrderRecord(Str(<<"P1">>), MonthAt(n, TRUE), 4)>> \o
                 [i \in 1..n |->
                     OrderRecord(Str(<<"P1">>), MonthAt(n + 1 - i, TRUE), v[n + 1 - i])]
    IN  UNION {{plain(n, v) : v \in [1..n -> RevenueValues]} \cup
               {mixed(n, v) : v \in [1..n -> RevenueValues]} : n \in 0..MaxPeriods}

\* the data is loaded and a request to /api/predict-sales enters its handler
ForecastInit ==
    /\ NoThreads
    /\ CleanerIdle
    /\ csv_orders \in ForecastOrders
    /\ csv_products = <<ProductRecord(Str(<<"P1">>), Str(<<"Books">>))>>
    /\ app_attrs = {"orders_df", "products_df", "merged_df"}
    /\ app_orders_df = csv_orders
    /\ app_products_df = csv_products
    /\ app_merged_df = LeftMerge(csv_orders, csv_products)
    /\ rpc = "handler"
    /\ served = 0
    /\ response = <<>>
    /\ monthly_data = <<>>
    /\ df_features = <<>>
    /\ train = <<>>
    /\ test = <<>>
    /\ metrics = <<>>
    /\ next_features = <<>>
    /\ route = "predict_sales"
    /\ todo = <<>>
    /\ predictions = <<>>
    /\ next_month_date = Unbound
    /\ hpc = "aggregate"

\* a handler that works on the shared table itself: the column it adds to
\* its local table is added to the table of the process
Aliased(shared, local) == local

\* lines 59, 635: orders = app.orders_df.copy(); the column the handler adds
\* to its local table leaves the table of the process as it was
Copied(shared, local) == shared

\* lines 62, 638: orders['YearMonth'] = orders['Date'].dt.to_period('M')
WithYearMonth(orders) == WithColumn(orders, "YearMonth", Column(orders, "Date"))

\* lines 635-644
Aggregate ==
    /\ hpc = "aggregate"
    /\ LET orders == WithYearMonth(app_orders_df)
       IN  /\ monthly_data' = MonthlyAggregate(orders)
           /\ app_orders_df' = Copied(app_orders_df, orders)
    /\ hpc' = "prepare"
    /\ UNCHANGED <<threads, cleaner_vars, csv_orders, csv_products, app_attrs,
                   app_products_df, app_merged_df, rpc, served, response, df_features,
                   train, test, metrics, next_features, batch_vars>>

\* lines 651-659
Split ==
    /\ hpc = "split"
    /\ rpc = "handler"
    /\ train' = TrainRows(df_features)
    /\ test' = TestRows(df_features)
    /\ hpc' = "fit"
    /\ UNCHANGED <<threads, cleaner_vars, server_vars, monthly_data, df_features, metrics,
                   next_features, batch_vars>>

\* lines 662-663: fit raises on an empty training split; the exception is
\* caught at line 722
Fit ==
    /\ hpc = "fit"
    /\ IF train = <<>> \/ NotFinite32(train)
       THEN /\ response' = ErrorResponse(IF train = <<>> THEN "fit: no samples"
                                         ELSE "fit: value too large")
            /\ served' = served + 1
            /\ rpc' = "idle"
            /\ hpc' = "done"
       ELSE /\ hpc' = "evaluate"
            /\ UNCHANGED <<response, served, rpc>>
    /\ UNCHANGED <<threads, cleaner_vars, csv_orders, csv_products, app_attrs, app_orders_df,
                   app_products_df, app_merged_df, monthly_data, df_features, train,
                   test, metrics, next_features, batch_vars>>

\* lines 666-671: the model predicts the test rows, the metrics are computed;
\* predict raises on a test row that is not finite
Evaluate ==
    /\ hpc = "evaluate"
    /\ IF NotFinite32(test)
       THEN /\ response' = ErrorResponse("predict: value too large")
            /\ served' = served + 1
            /\ rpc' = "idle"
            /\ hpc' = "done"
            /\ UNCHANGED metrics
       ELSE /\ \E y_pred_test \in [1..Len(test) -> PredValues]:
                  metrics' = [y_pred_test |-> y_pred_test,
                              mae |-> MeanAbsoluteError(RevenueOf(test), y_pred_test),
                              rmse |-> Rmse(RevenueOf(test), y_pred_test),
                              r2 |-> R2Score(RevenueOf(test), y_pred_test),
                              mape |-> Mape(RevenueOf(test), y_pred_test),
                              accuracy |-> Accuracy(Mape(RevenueOf(test), y_pred_test))]
            /\ hpc' = "predict"
            /\ UNCHANGED <<response, served, rpc>>
    /\ UNCHANGED <<threads, cleaner_vars, csv_orders, csv_products, app_attrs, app_orders_df,
                   app_products_df, app_merged_df, monthly_data, df_features, train,
                   test, next_features, batch_vars>>

\* lines 674-720: the next month is predicted and the result returned
PredictNext ==
    /\ hpc = "predict"
    /\ next_features' = NextFeatures(df_features, "Revenue")
    /\ IF NotFinite32(<<NextFeatures(df_features, "Revenue")>>)
       THEN response' = ErrorResponse("predict: value too large")
       ELSE \E predicted_revenue \in PredValues:
               response' = Result(df_features, metrics,
                                  NextFeatures(df_features, "Revenue"), predicted_revenue)
    /\ served' = served + 1
    /\ rpc' = "idle"
    /\ hpc' = "done"
    /\ UNCHANGED <<threads, cleaner_vars, csv_orders, csv_products, app_attrs, app_orders_df,
                   app_products_df, app_merged_df, monthly_data, df_features, train,
                   test, metrics, batch_vars>>

ForecastNext ==
    \/ Aggregate
    \/ PrepareFeatures
    \/ Truncate
    \/ Split
    \/ Fit
    \/ Evaluate
    \/ PredictNext

SpecForecast == ForecastInit /\ [][ForecastNext]_vars

----------------------------------------------------------------------------
(* dashboard/app.py: predict_category_sales and predict_product_demand *)

\* a row of Order_Details_Cleaned.csv with its quantity
SaleRecord(id, month, price, quantity) ==
    [Product_ID |-> id, Date |-> month, Net_Price |-> price, Quantity |-> quantity]

\* a row of Product_Details_Cleaned.csv with its name
CatalogRecord(id, name, category) ==
    [Product_ID |-> id, Product_Name |-> name, Category |-> category]

Catalog ==
    <<CatalogRecord(Str(<<"P1">>), Str(<<"Atlas">>), Str(<<"Books">>)),
      CatalogRecord(Str(<<"P2">>), Str(<<"Robot">>), Str(<<"Toys">>))>>

\* the Product IDs of the files, in lexicographic order
ProductIds == <<Str(<<"P1">>), Str(<<"P2">>), Str(<<"P3">>)>>

\* an amount in the file that is finite as a float64 and too large for a
\* float32
Huge == 4000

HistoryLengths == {4, 6, 9, 10}

HistoryShapes == {"ramp", "huge", "returned"}

\* the orders of one product: one order in each of n consecutive months from
\* month start on, the amounts growing, or with one amount that is huge, or
\* with one month in which more units came back than were sold
History(id, n, start, shape) ==
    [i \in 1..n |->
        IF shape = "huge" /\ i = 2
        THEN SaleRecord(id, start + i - 1, Huge, Huge)
        ELSE IF shape = "returned" /\ i = 4
        THEN SaleRecord(id, start + i - 1, 4 * i, -i)
        ELSE SaleRecord(id, start + i - 1, 4 * i, i)]

\* the orders files of the per-segment endpoints: the orders of P1 and of P2
\* in either order, then an order of P3, which the products file does not hold
SalesTables ==
    {(IF p1_first THEN History(ProductIds[1], n1, 1, shape1) \o
                       History(ProductIds[2], n2, start2, shape2)
      ELSE History(ProductIds[2], n2, start2, shape2) \o
           History(ProductIds[1], n1, 1, shape1))
     \o <<SaleRecord(ProductIds[3], 1, 4, 1)>>
     : n1 \in HistoryLengths, n2 \in HistoryLengths, start2 \in {1, 2},
       shape1 \in HistoryShapes, shape2 \in HistoryShapes, p1_first \in BOOLEAN}

\* Series.unique(): the distinct values in order of first appearance
RECURSIVE Unique(_)
Unique(xs) ==
    IF xs = <<>> THEN <<>>
    ELSE <<Head(xs)>> \o Unique(SelectSeq(Tail(xs), LAMBDA x: x # Head(xs)))

\* lines 737-744: the monthly revenue of one category, months ascending
CategoryMonthly(merged, category) ==
    LET category_data == SelectSeq(merged, LAMBDA r: r.Category = category)
        keys == SortedSeqOf({category_data[i].Date : i \in 1..Len(category_data)})
        of(m) == SelectSeq(category_data, LAMBDA r: r.Date = m)
    IN  [g \in 1..Len(keys) |->
            [Date |-> keys[g],
             Revenue |-> SumSeq(ValuesOf(of(keys[g]), "Net_Price"))]]

\* lines 816-824: the monthly quantity and revenue of one product
ProductMonthly(merged, product_id) ==
    LET product_data == SelectSeq(merged, LAMBDA r: r.Product_ID = product_id)
        keys == SortedSeqOf({product_data[i].Date : i \in 1..Len(product_data)})
        of(m) == SelectSeq(product_data, LAMBDA r: r.Date = m)
    IN  [g \in 1..Len(keys) |->
            [Date |-> keys[g],
             Quantity |-> SumSeq(ValuesOf(of(keys[g]), "Quantity")),
             Revenue |-> SumSeq(ValuesOf(of(keys[g]), "Net_Price"))]]

\* line 808: nlargest(10, ...)
TopN == 10

\* lines 806-808: the revenue of each (Product ID, Product Name) group, the
\* groups with a missing name left out, the TopN largest first, ties in the
\* order of the keys
TopProducts(merged) ==
    LET named == SelectSeq(merged, LAMBDA r: ~IsNull(r.Product_Name))
        ids == SelectSeq(ProductIds,
                         LAMBDA id: \E i \in 1..Len(named): named[i].Product_ID = id)
        of(id) == SelectSeq(named, LAMBDA r: r.Product_ID = id)
        groups == [g \in 1..Len(ids) |->
                      [Product_ID |-> ids[g],
                       Product_Name |-> of(ids[g])[1].Product_Name,
                       Net_Price |-> SumSeq(ValuesOf(of(ids[g]), "Net_Price")),
                       pos |-> g]]
        largest == SortSeq(groups, LAMBDA a, b:
                              \/ a.Net_Price > b.Net_Price
                              \/ a.Net_Price = b.Net_Price /\ a.pos < b.pos)
    IN  SubSeq(largest, 1, IF Len(largest) > TopN THEN TopN ELSE Len(largest))

\* lines 746 and 753: the fewest periods and feature rows of a category
MinCategoryPeriods == 10
MinCategoryFeatures == 5

\* lines 826 and 833: the fewest periods and feature rows of a product
MinProductPeriods == 6
MinProductFeatures == 3

\* a guard that lets every segment through
NeverTooShort(df, least) == FALSE

\* lines 746, 753, 826, 833: if len(...) < least: continue
TooShort(df, least) == Len(df) < least

\* line 794: the name next_month_date is read; it is unbound when no segment
\* was forecast
UnboundLocalError == "local variable 'next_month_date' referenced before assignment"

\* the files are loaded and a request to one of the per-segment endpoints
\* has passed load_data
BatchInit ==
    /\ NoThreads
    /\ CleanerIdle
    /\ HandlerIdle
    /\ csv_orders \in SalesTables
    /\ csv_products = Catalog
    /\ app_attrs = {"orders_df", "products_df", "merged_df"}
    /\ app_orders_df = csv_orders
    /\ app_products_df = DropDuplicates(csv_products)
    /\ app_merged_df = LeftMerge(csv_orders, DropDuplicates(csv_products))
    /\ rpc = "handler"
    /\ served = 0
    /\ response = <<>>

\* the orders files of a server that answers several requests
ServeTables ==
    {History(ProductIds[1], 10, 1, shape1) \o History(ProductIds[2], n2, 2, "ramp")
     \o <<SaleRecord(ProductIds[3], 1, 4, 1)>>
     : n2 \in {4, 10}, shape1 \in HistoryShapes}

\* the server starts with nothing loaded; either file may be unreadable
ServeInit ==
    /\ NoThreads
    /\ CleanerIdle
    /\ HandlerIdle
    /\ \/ csv_orders \in ServeTables /\ csv_products \in {Catalog, Unreadable}
       \/ csv_orders = Unreadable /\ csv_products = Catalog
    /\ app_attrs = {}
    /\ app_orders_df = <<>>
    /\ app_products_df = <<>>
    /\ app_merged_df = <<>>
    /\ rpc = "idle"
    /\ served = 0
    /\ response = <<>>

\* a call of a handler starts with fresh locals
FreshLocals ==
    /\ monthly_data' = <<>>
    /\ df_features' = <<>>
    /\ train' = <<>>
    /\ test' = <<>>
    /\ metrics' = <<>>
    /\ next_features' = <<>>
    /\ predictions' = <<>>
    /\ next_month_date' = Unbound

\* lines 729 and 803: app.merged_df is read inside the try; when a failed
\* load has left it unset, AttributeError is answered at the except clause
MissingAttribute ==
    /\ todo' = <<>>
    /\ response' = ErrorResponse("'Flask' object has no attribute 'merged_df'")
    /\ served' = served + 1
    /\ rpc' = "idle"
    /\ hpc' = "done"
    /\ UNCHANGED <<threads, cleaner_vars, data_vars>>

\* the request is for /api/predict-sales
EnterPredictSales ==
    /\ rpc = "handler"
    /\ hpc \in {"off", "done"}
    /\ FreshLocals
    /\ route' = "predict_sales"
    /\ todo' = <<>>
    /\ hpc' = "aggregate"
    /\ UNCHANGED <<threads, cleaner_vars, server_vars>>

\* lines 729-733: the request is for /api/predict-category-sales
EnterCategory ==
    /\ rpc = "handler"
    /\ hpc \in {"off", "done"}
    /\ FreshLocals
    /\ route' = "predict_category_sales"
    /\ IF "merged_df" \in app_attrs
       THEN /\ todo' = Unique(ValuesOf(app_merged_df, "Category"))
            /\ hpc' = "loop"
            /\ UNCHANGED <<threads, cleaner_vars, server_vars>>
       ELSE MissingAttribute

\* lines 803-812: the request is for /api/predict-product-demand
EnterProduct ==
    /\ rpc = "handler"
    /\ hpc \in {"off", "done"}
    /\ FreshLocals
    /\ route' = "predict_product_demand"
    /\ IF "merged_df" \in app_attrs
       THEN /\ todo' = TopProducts(app_merged_df)
            /\ hpc' = "loop"
            /\ UNCHANGED <<threads, cleaner_vars, server_vars>>
       ELSE MissingAttribute

\* continue: the loop goes on to the next segment
Continue(monthly, features) ==
    /\ todo' = Tail(todo)
    /\ monthly_data' = monthly
    /\ df_features' = features
    /\ UNCHANGED <<threads, cleaner_vars, server_vars, train, test, metrics, next_features, hpc,
                   route, predictions, next_month_date>>

\* an exception leaves the loop and is answered at the except clause; fitted
\* holds the rows of the last model.fit that returned
Raise(monthly, features, fitted, next, date, message) ==
    /\ monthly_data' = monthly
    /\ df_features' = features
    /\ train' = fitted
    /\ next_features' = next
    /\ next_month_date' = date
    /\ response' = ErrorResponse(message)
    /\ served' = served + 1
    /\ rpc' = "idle"
    /\ hpc' = "done"
    /\ UNCHANGED <<threads, cleaner_vars, data_vars, test, metrics, route, todo, predictions>>

\* lines 763 and 842: model.fit(X, y) takes every feature row of the segment;
\* a prediction is appended and the loop goes on
Forecast(monthly, features, next, entry) ==
    /\ todo' = Tail(todo)
    /\ monthly_data' = monthly
    /\ df_features' = features
    /\ train' = features
    /\ next_features' = next
    /\ next_month_date' = Month(next.Date)
    /\ predictions' = Append(predictions, entry)
    /\ UNCHANGED <<threads, cleaner_vars, server_vars, test, metrics, hpc, route>>

\* lines 733-791: one pass of the loop over the categories
CategoryStep ==
    /\ hpc = "loop"
    /\ route = "predict_category_sales"
    /\ todo # <<>>
    /\ LET category == Head(todo)
           monthly_cat == CategoryMonthly(app_merged_df, category)
           features == DropNa(prepare_time_series_features(monthly_cat, "Revenue"))
           last_row == features[Len(features)]
           next == NextFeatures(features, "Revenue")
       IN  IF IsNull(category) THEN Continue(monthly_data, df_features)
           ELSE IF TooShort(monthly_cat, MinCategoryPeriods)
           THEN Continue(monthly_cat, df_features)
           ELSE IF TooShort(features, MinCategoryFeatures)
           THEN Continue(monthly_cat, features)
           ELSE IF features = <<>> \/ NotFinite32(features)
           THEN Raise(monthly_cat, features, train, next_features, next_month_date,
                      IF features = <<>> THEN "fit: no samples" ELSE "fit: value too large")
           ELSE IF NotFinite32(<<next>>)
           THEN Raise(monthly_cat, features, features, next, Month(next.Date),
                      "predict: value too large")
           ELSE \E predicted_revenue \in PredValues:
                   Forecast(monthly_cat, features, next,
                            [category |-> category,
                             predicted_revenue |-> predicted_revenue,
                             last_month_revenue |-> last_row.Revenue,
                             growth_rate |-> GrowthRate(predicted_revenue,
                                                        last_row.Revenue)])

\* line 863: a forest answers with a mean of training targets, which is
\* below zero only when a target is
QuantityPredictions(features) ==
    PredValues \cup {q \in {features[i].Quantity : i \in 1..Len(features)}: q < 0}

\* lines 812-870: one pass of the loop over the top products
ProductStep ==
    /\ hpc = "loop"
    /\ route = "predict_product_demand"
    /\ todo # <<>>
    /\ LET product_row == Head(todo)
           monthly_prod == ProductMonthly(app_merged_df, product_row.Product_ID)
           features == DropNa(prepare_time_series_features(monthly_prod, "Quantity"))
           last_row == features[Len(features)]
           next == NextFeatures(features, "Quantity")
       IN  IF TooShort(monthly_prod, MinProductPeriods)
           THEN Continue(monthly_prod, df_features)
           ELSE IF TooShort(features, MinProductFeatures)
           THEN Continue(monthly_prod, features)
           ELSE IF features = <<>> \/ NotFinite32(features)
           THEN Raise(monthly_prod, features, train, next_features, next_month_date,
                      IF features = <<>> THEN "fit: no samples" ELSE "fit: value too large")
           ELSE IF NotFinite32(<<next>>)
           THEN Raise(monthly_prod, features, features, next, Month(next.Date),
                      "predict: value too large")
           ELSE \E predicted_quantity \in QuantityPredictions(features):
                   Forecast(monthly_prod, features, next,
                            [product_name |-> product_row.Product_Name,
                             predicted_quantity |-> IF predicted_quantity > 0
                                                    THEN predicted_quantity ELSE 0,
                             last_month_quantity |-> last_row.Quantity,
                             growth_rate |-> IF last_row.Quantity > 0
                                             THEN GrowthRate(predicted_quantity,
                                                             last_row.Quantity)
                                             ELSE Frac(0, 1)])

\* lines 794 and 872: the loop is over, the predictions are returned with the
\* month of the segment forecast last
ReturnPredictions ==
    /\ hpc = "loop"
    /\ todo = <<>>
    /\ response' = IF next_month_date = Unbound
                   THEN ErrorResponse(UnboundLocalError)
                   ELSE [predictions |-> predictions, predicted_month |-> next_month_date]
    /\ served' = served + 1
    /\ rpc' = "idle"
    /\ hpc' = "done"
    /\ UNCHANGED <<threads, cleaner_vars, data_vars, monthly_data, df_features, train, test, metrics,
                   next_features, route, todo, predictions, next_month_date>>

BatchNext ==
    \/ EnterCategory
    \/ CategoryStep
    \/ EnterProduct
    \/ ProductStep
    \/ ReturnPredictions

SpecBatch == BatchInit /\ [][BatchNext]_vars

\* lines 56-124: /api/sales-trends answers with the monthly revenue and
\* order counts, computed on a copy of the orders table
SalesTrends ==
    /\ rpc = "handler"
    /\ hpc \in {"off", "done"}
    /\ IF "orders_df" \in app_attrs
       THEN LET orders == WithYearMonth(app_orders_df)
                monthly_sales == MonthlyAggregate(orders)
            IN  /\ response' = [x |-> Column(monthly_sales, "Date"),
                                y |-> Column(monthly_sales, "Revenue"),
                                orders |-> Column(monthly_sales, "Orders")]
                /\ app_orders_df' = Copied(app_orders_df, orders)
       ELSE /\ response' = Uncaught("'Flask' object has no attribute 'orders_df'")
            /\ UNCHANGED app_orders_df
    /\ served' = served + 1
    /\ rpc' = "idle"
    /\ UNCHANGED <<threads, cleaner_vars, handler_vars, csv_orders, csv_products, app_attrs,
                   app_products_df, app_merged_df>>

ServeNext ==
    \/ Request
    \/ SalesTrends
    \/ LoadGuard
    \/ ReadOrders
    \/ ReadProducts
    \/ DoDropDuplicates
    \/ DoMerge
    \/ LoadFails
    \/ EnterPredictSales
    \/ Aggregate
    \/ PrepareFeatures
    \/ Truncate
    \/ Split
    \/ Fit
    \/ Evaluate
    \/ PredictNext
    \/ EnterCategory
    \/ CategoryStep
    \/ EnterProduct
    \/ ProductStep
    \/ ReturnPredictions

SpecServe == ServeInit /\ [][ServeNext]_vars

----------------------------------------------------------------------------
(* dashboard/app.py: revenue_heatmap *)

\* a row of Order_Details_Cleaned.csv with the quarter the cleaner derived
\* from its date; the quarter is missing when the date was
QuarterRecord(id, quarter, price) ==
    [Product_ID |-> id, Quarter |-> quarter, Net_Price |-> price]

HeatmapOrderRows ==
    { QuarterRecord(ProductIds[1], Num(1), 4),
      QuarterRecord(ProductIds[2], Num(1), 8),
      QuarterRecord(ProductIds[2], Num(2), 4),
      QuarterRecord(ProductIds[3], Num(2), 4),
      QuarterRecord(ProductIds[1], NaN, 4) }

\* the category names of the products file, in lexicographic order
CategoryNames == <<Str(<<"Books">>), Str(<<"Toys">>)>>

\* lines 513-515: groupby(['Category', 'Quarter']) sums the net prices of
\* each pair of keys; a row with a missing key is in no group
heatmap_data(merged) ==
    LET keyed == SelectSeq(merged, LAMBDA r: ~IsNull(r.Category) /\ ~IsNull(r.Quarter))
        of(c, q) == SelectSeq(keyed, LAMBDA r: r.Category = c /\ r.Quarter = q)
    IN  {[Category |-> keyed[i].Category, Quarter |-> keyed[i].Quarter,
          Net_Price |-> SumSeq(ValuesOf(of(keyed[i].Category, keyed[i].Quarter), "Net_Price"))]
         : i \in 1..Len(keyed)}

\* line 518: fillna(0)
FillEmptyCells(cell) == IF IsNull(cell) THEN Num(0) ELSE cell

\* lines 517-518: one row per category and one column per quarter of the
\* groups, categories and quarters ascending; a cell without a group is 0
pivot_data(groups) ==
    LET index == SelectSeq(CategoryNames, LAMBDA c: \E g \in groups: g.Category = c)
        columns == SortedSeqOf({g.Quarter.v : g \in groups})
        cell(c, q) == IF \E g \in groups: g.Category = c /\ g.Quarter = Num(q)
                      THEN Num((CHOOSE g \in groups: g.Category = c /\ g.Quarter = Num(q)).Net_Price)
                      ELSE NaN
    IN  [index |-> index,
         columns |-> columns,
         values |-> [i \in 1..Len(index) |->
                        [j \in 1..Len(columns) |-> FillEmptyCells(cell(index[i], columns[j]))]]]

\* the files are loaded; requests to /api/revenue-heatmap follow
HeatmapInit ==
    /\ NoThreads
    /\ CleanerIdle
    /\ HandlerIdle
    /\ csv_orders \in Tables(HeatmapOrderRows, MaxRows)
    /\ csv_products = Catalog
    /\ app_attrs = {"orders_df", "products_df", "merged_df"}
    /\ app_orders_df = csv_orders
    /\ app_products_df = DropDuplicates(csv_products)
    /\ app_merged_df = LeftMerge(csv_orders, DropDuplicates(csv_products))
    /\ rpc = "idle"
    /\ served = 0
    /\ response = <<>>

\* lines 509-542: the figure's z, x and y are the pivot's values, columns and
\* index
RevenueHeatmap ==
    /\ rpc = "handler"
    /\ response' = [z |-> pivot_data(heatmap_data(app_merged_df)).values,
                    x |-> pivot_data(heatmap_data(app_merged_df)).columns,
                    y |-> pivot_data(heatmap_data(app_merged_df)).index]
    /\ served' = served + 1
    /\ rpc' = "idle"
    /\ UNCHANGED <<threads, cleaner_vars, handler_vars, data_vars>>

HeatmapNext ==
    \/ Request
    \/ LoadGuard
    \/ RevenueHeatmap

SpecHeatmap == HeatmapInit /\ [][HeatmapNext]_vars

----------------------------------------------------------------------------
(* Claims about the data cleaner (specification SpecClean) *)

OrdersCopied == cpc # "copy_orders"

ProductsCopied ==
    cpc \in {"fill_products", "trim_products", "price_tax", "verify", "save", "done"}

OrdersFilled == cpc \notin {"copy_orders", "fill_orders"}

ProductsFilled == cpc \in {"trim_products", "price_tax", "verify", "save", "done"}

\* C1: no cleaning step removes or adds a row: at every step the cleaned
\* orders and products tables have as many rows as the raw tables, the
\* verification reports success, and so have the two tables written.
C1_RowCountPreserved ==
    /\ OrdersCopied => Len(orders_cleaned) = Len(orders_df)
    /\ ProductsCopied => Len(products_cleaned) = Len(products_df)
    /\ cpc \in {"save", "done"} => report = [orders |-> "SUCCESS", products |-> "SUCCESS"]
    /\ cpc = "done" => /\ Len(saved.orders) = Len(orders_df)
                       /\ Len(saved.products) = Len(products_df)

\* a raw table with missing cells in every column has been cleaned and written
C1_Witness ==
    /\ cpc = "done"
    /\ Len(saved.orders) = MaxRows
    /\ \E i \in 1..Len(orders_df): \A c \in DOMAIN orders_df[i]: IsNull(orders_df[i][c])
    /\ \E i \in 1..Len(products_df): IsNull(products_df[i].Unit_Price)

\* the non-null values of column c of a raw table
RawValues(tbl, c) == {tbl[i][c].v : i \in {j \in 1..Len(tbl): ~IsNull(tbl[j][c])}}

AtMost(tbl, c, y) == Cardinality({i \in 1..Len(tbl): ~IsNull(tbl[i][c]) /\ tbl[i][c].v <= y})

AtLeast(tbl, c, y) == Cardinality({i \in 1..Len(tbl): ~IsNull(tbl[i][c]) /\ tbl[i][c].v >= y})

NonNullCount(tbl, c) == Cardinality({i \in 1..Len(tbl): ~IsNull(tbl[i][c])})

\* the values with at least half of the non-null values on either side
MiddleValues(tbl, c) ==
    {y \in RawValues(tbl, c):
        /\ 2 * AtMost(tbl, c, y) >= NonNullCount(tbl, c)
        /\ 2 * AtLeast(tbl, c, y) >= NonNullCount(tbl, c)}

\* x is the median of the non-null values of column c: half-way between the
\* least and the greatest middle value
IsMedianOf(x, tbl, c) ==
    /\ MiddleValues(tbl, c) # {}
    /\ \E lo \in MiddleValues(tbl, c), hi \in MiddleValues(tbl, c):
          /\ \A y \in MiddleValues(tbl, c): lo <= y /\ y <= hi
          /\ 2 * x = lo + hi

\* column c of the cleaned table holds the raw column with the missing cells
\* filled by the median of the non-null cells (0 when there is none)
MedianFilled(raw, cleaned, c) ==
    \A i \in 1..Len(raw):
        IF IsNull(raw[i][c])
        THEN /\ cleaned[i][c].k = "num"
             /\ IF NonNullCount(raw, c) = 0 THEN cleaned[i][c].v = 0
                ELSE IsMedianOf(cleaned[i][c].v, raw, c)
        ELSE cleaned[i][c] = raw[i][c]

\* C2: in the numeric columns (Net Price of the orders, Unit Price and Tax
\* Rate of the products) every missing cell holds, from the fill on and in
\* the files written, the median of the column's non-null cells (0 when it
\* has none), and every other cell is unchanged.
C2_MissingNumericIsMedian ==
    /\ OrdersFilled => MedianFilled(orders_df, orders_cleaned, "Net_Price")
    /\ ProductsFilled => /\ MedianFilled(products_df, products_cleaned, "Unit_Price")
                         /\ MedianFilled(products_df, products_cleaned, "Tax_Rate")
    /\ cpc = "done" => /\ MedianFilled(orders_df, saved.orders, "Net_Price")
                       /\ MedianFilled(products_df, saved.products, "Unit_Price")

\* a missing price beside two different prices (the median lies between
\* them), and a products table whose only price is missing
C2_Witness ==
    /\ cpc = "done"
    /\ \E i, j, h \in 1..Len(orders_df):
          /\ IsNull(orders_df[i].Net_Price)
          /\ orders_df[j].Net_Price = Num(4)
          /\ orders_df[h].Net_Price = Num(12)
          /\ saved.orders[i].Net_Price = Num(8)
    /\ NonNullCount(products_df, "Unit_Price") = 0
    /\ saved.products[1].Unit_Price = Num(0)

AgeMapped == cpc \notin {"copy_orders", "fill_orders", "dates", "age_group", "age_numeric"}

AgeOrdered == AgeMapped /\ cpc # "age_order"

LocationSplitDone ==
    AgeOrdered /\ cpc \notin {"trim_orders", "seasonality", "location"}

CanonicalBuckets == {"18-24", "25-34", "35-44", "45-54", "55+"}

\* row i of the cleaned orders holds one of the five canonical buckets
IsCanonical(i) ==
    /\ orders_cleaned[i].Customer_Age_Group.k = "str"
    /\ \E b \in CanonicalBuckets: orders_cleaned[i].Customer_Age_Group.v = <<b>>

\* the midpoints of the rows with a canonical bucket, as a one-column table
MappedMidpoints ==
    [i \in 1..Len(orders_cleaned) |->
        [mid |-> IF IsCanonical(i)
                 THEN age_mapping[orders_cleaned[i].Customer_Age_Group.v[1]] ELSE NaN]]

\* C3: age bucket mapping is total: every cleaned row holds a canonical bucket
\* and its midpoint, or an unrecognized bucket and the median of the midpoints
\* of the mapped rows; Customer_Age_Numeric is a number in every case.
C3_AgeMappingTotal ==
    AgeMapped =>
        \A i \in 1..Len(orders_cleaned):
            /\ orders_cleaned[i].Customer_Age_Numeric.k = "num"
            /\ IF IsCanonical(i)
               THEN orders_cleaned[i].Customer_Age_Numeric =
                        age_mapping[orders_cleaned[i].Customer_Age_Group.v[1]]
               ELSE IsMedianOf(orders_cleaned[i].Customer_Age_Numeric.v,
                               MappedMidpoints, "mid")

\* C4: a row with an unrecognized bucket has an Age_Group_Order greater than
\* the order of every canonical bucket.
C4_UnrecognizedLast ==
    AgeOrdered =>
        \A i \in 1..Len(orders_cleaned):
            ~IsCanonical(i) =>
                \A b \in CanonicalBuckets:
                    orders_cleaned[i].Age_Group_Order.v > age_order_mapping[b].v

HasComma(s) == \E j \in 1..Len(s): s[j] = ","

FirstComma(s) == CHOOSE j \in 1..Len(s): s[j] = "," /\ \A h \in 1..(j - 1): s[h] # ","

\* C5: Customer_City is the trimmed text before the first comma of the
\* location, Customer_Country the trimmed text after it, and "Unknown" in
\* every row whose location has no comma.
C5_LocationSplit ==
    LocationSplitDone =>
        \A i \in 1..Len(orders_cleaned):
            LET s == AsStr(orders_cleaned[i].Customer_Location).v
            IN  IF HasComma(s)
                THEN /\ orders_cleaned[i].Customer_City =
                            Str(Strip(SubSeq(s, 1, FirstComma(s) - 1)))
                     /\ orders_cleaned[i].Customer_Country =
                            Str(Strip(SubSeq(s, FirstComma(s) + 1, Len(s))))
                ELSE /\ orders_cleaned[i].Customer_City = Str(Strip(s))
                     /\ orders_cleaned[i].Customer_Country = Str(<<"Unknown">>)

----------------------------------------------------------------------------
(* Claims about the data-loading guard (specification SpecLoad) *)

\* the category of the first row of the products file with Product ID id,
\* missing when the file has no such row
FirstCategory(id) ==
    IF \E j \in 1..Len(csv_products): csv_products[j].Product_ID = id
    THEN csv_products[CHOOSE j \in 1..Len(csv_products):
                          /\ csv_products[j].Product_ID = id
                          /\ \A h \in 1..(j - 1): csv_products[h].Product_ID # id].Category
    ELSE NaN

\* C6: once load_data has run, the product table holds at most one row per
\* Product ID and the merged table holds exactly one row per order row, in
\* the order of the orders: the order's own fields and the category of its
\* product, missing when no product has its Product ID.
C6_NoFanOut ==
    "merged_df" \in app_attrs =>
        /\ \A i, j \in 1..Len(app_products_df):
              app_products_df[i].Product_ID = app_products_df[j].Product_ID => i = j
        /\ Len(app_merged_df) = Len(app_orders_df)
        /\ Len(app_orders_df) = Len(csv_orders)
        /\ \A i \in 1..Len(app_merged_df):
              /\ app_merged_df[i].Product_ID = csv_orders[i].Product_ID
              /\ app_merged_df[i].Date = csv_orders[i].Date
              /\ app_merged_df[i].Net_Price = csv_orders[i].Net_Price
              /\ app_merged_df[i].Category = FirstCategory(csv_orders[i].Product_ID)

\* a products file with a duplicated Product ID that an order refers to, and
\* an order whose product is in no row of the file, have been loaded and merged
C6_Witness ==
    /\ "merged_df" \in app_attrs
    /\ rpc = "idle"
    /\ served > 0
    /\ \E i, j \in 1..Len(csv_products):
          /\ i # j
          /\ csv_products[i].Product_ID = csv_products[j].Product_ID
          /\ \E h \in 1..Len(csv_orders): csv_orders[h].Product_ID = csv_products[i].Product_ID
    /\ \E h \in 1..Len(app_merged_df): IsNull(app_merged_df[h].Category)

----------------------------------------------------------------------------
(* Claims about feature engineering and the sales forecast *)

\* the feature table has been truncated
Truncated == hpc \in {"split", "fit", "evaluate", "predict", "done"}

\* the chronological position of a period in the series
Rank(date) == Cardinality({j \in 1..Len(monthly_data): monthly_data[j].Date < date}) + 1

\* the target value of the period at a chronological position
TargetAt(pos) ==
    monthly_data[CHOOSE j \in 1..Len(monthly_data): Rank(monthly_data[j].Date) = pos].Revenue

\* C7: in the feature rows left after truncation, lag_1 of every row but the
\* first is the target value of the row before it, and lag_1, lag_2, lag_3 of
\* every row are the target values of the periods 1, 2 and 3 positions
\* earlier in the chronologically sorted series, in whatever row order the
\* series was given.
C7_LagsFollowChronology ==
    Truncated =>
        \A i \in 1..Len(df_features):
            /\ i > 1 => df_features[i].lag_1 = Num(df_features[i - 1].Revenue)
            /\ Rank(df_features[i].Date) > 3
            /\ df_features[i].lag_1 = Num(TargetAt(Rank(df_features[i].Date) - 1))
            /\ df_features[i].lag_2 = Num(TargetAt(Rank(df_features[i].Date) - 2))
            /\ df_features[i].lag_3 = Num(TargetAt(Rank(df_features[i].Date) - 3))

\* a series given out of chronological order has been truncated to at least
\* three rows, one of which has three different neighbours behind it
C7_Witness ==
    /\ hpc = "split"
    /\ Len(df_features) >= 3
    /\ \E j \in 1..(Len(monthly_data) - 1): monthly_data[j].Date > monthly_data[j + 1].Date
    /\ \E i \in 2..Len(df_features):
          /\ df_features[i].lag_1 # df_features[i].lag_2
          /\ df_features[i].lag_2 # df_features[i].lag_3

\* C8: truncation drops exactly the first three periods: of a series of n
\* periods max(0, n - 3) feature rows remain, they are the chronologically
\* last n - 3 periods in chronological order, and lag_1, lag_2, lag_3,
\* rolling_mean_3, rolling_std_3 and rolling_mean_6 of each are defined.
C8_ColdStartTruncation ==
    Truncated =>
        /\ Len(df_features) = IF Len(monthly_data) > 3 THEN Len(monthly_data) - 3 ELSE 0
        /\ \A i \in 1..Len(df_features):
              /\ Rank(df_features[i].Date) = i + 3
              /\ df_features[i].Revenue = TargetAt(i + 3)
              /\ ~IsNull(df_features[i].lag_1)
              /\ ~IsNull(df_features[i].lag_2)
              /\ ~IsNull(df_features[i].lag_3)
              /\ ~IsNull(df_features[i].rolling_mean_3)
              /\ ~IsNull(df_features[i].rolling_std_3)
              /\ ~IsNull(df_features[i].rolling_mean_6)

\* a series of more than six periods, given out of chronological order, has
\* been truncated
C8_Witness ==
    /\ hpc = "split"
    /\ Len(monthly_data) > 6
    /\ Len(df_features) = Len(monthly_data) - 3
    /\ monthly_data[1].Date > monthly_data[2].Date

\* a series of at most three periods has been truncated to nothing
C8_WitnessShort ==
    /\ hpc = "split"
    /\ Len(monthly_data) = 3
    /\ df_features = <<>>

\* the splits have been taken
SplitDone == hpc \in {"fit", "evaluate", "predict", "done"}

\* C9: the train split is the first floor(0.8 n) of the n feature rows and
\* the test split the rest, the two together are the feature rows, and every
\* training period is strictly earlier than every test period.
C9_ChronologicalSplit ==
    SplitDone =>
        /\ 5 * Len(train) <= 4 * Len(df_features)
        /\ 4 * Len(df_features) < 5 * (Len(train) + 1)
        /\ train \o test = df_features
        /\ \A i \in 1..Len(train): train[i] = df_features[i]
        /\ \A i \in 1..Len(train), j \in 1..Len(test): train[i].Date < test[j].Date

\* orders given out of chronological order have been split into at least
\* four training rows and two test rows
C9_Witness ==
    /\ hpc = "evaluate"
    /\ Len(train) >= 4
    /\ Len(test) >= 2
    /\ \E j \in 1..(Len(app_orders_df) - 1): app_orders_df[j].Date > app_orders_df[j + 1].Date

\* C10: the accuracy predict_sales reports is max(0, 100 - MAPE): 100 - MAPE
\* when that is positive, otherwise 0 (also for an infinite or undefined
\* MAPE), and it lies in [0, 100].
C10_AccuracyClamped ==
    metrics # <<>> =>
        /\ metrics.accuracy.k = "frac"
        /\ metrics.accuracy.d > 0
        /\ 0 <= metrics.accuracy.n
        /\ metrics.accuracy.n <= 100 * metrics.accuracy.d
        /\ IF metrics.mape.k = "frac" /\ metrics.mape.n < 100 * metrics.mape.d
           THEN metrics.accuracy.n * metrics.mape.d =
                    (100 * metrics.mape.d - metrics.mape.n) * metrics.accuracy.d
           ELSE metrics.accuracy.n = 0
        /\ (hpc = "done" /\ "error" \notin DOMAIN response) =>
               response.accuracy = metrics.accuracy

\* a response has reported accuracy 0 for predictions whose MAPE exceeds 100
C10_Witness ==
    /\ hpc = "done"
    /\ metrics # <<>>
    /\ metrics.mape.k = "frac"
    /\ metrics.mape.n > 100 * metrics.mape.d
    /\ response.accuracy = Frac(0, 1)

\* a response has reported accuracy 0 for an infinite MAPE
C10_WitnessInf ==
    /\ hpc = "done"
    /\ metrics # <<>>
    /\ metrics.mape = Inf
    /\ response.accuracy = Frac(0, 1)

\* a response has reported accuracy 0 for an undefined MAPE
C10_WitnessNaN ==
    /\ hpc = "done"
    /\ metrics # <<>>
    /\ metrics.mape = NaN
    /\ response.accuracy = Frac(0, 1)

\* a response has reported an accuracy strictly between 0 and 100
C10_WitnessPartial ==
    /\ hpc = "done"
    /\ metrics # <<>>
    /\ metrics.accuracy.n > 0
    /\ metrics.accuracy.n < 100 * metrics.accuracy.d

----------------------------------------------------------------------------
(* Claims about the per-segment forecasts *)

\* the months in which the merged data has a row of the segment
SegmentMonths(col, key) ==
    {app_merged_df[i].Date : i \in {j \in 1..Len(app_merged_df): app_merged_df[j][col] = key}}

\* the months of the segment a prediction entry is about
EntryMonths(entry) ==
    IF route = "predict_category_sales"
    THEN SegmentMonths("Category", entry.category)
    ELSE SegmentMonths("Product_Name", entry.product_name)

\* the request was answered with a payload that is not an error payload
Succeeded == hpc = "done" /\ "error" \notin DOMAIN response

\* the request was answered with an error payload
Failed == hpc = "done" /\ "error" \in DOMAIN response

C11_WitnessProduct ==
    /\ route = "predict_product_demand"
    /\ Succeeded
    /\ Len(response.predictions) = 1
    /\ \E i \in 1..Len(app_merged_df):
          /\ ~IsNull(app_merged_df[i].Product_Name)
          /\ Cardinality(SegmentMonths("Product_Name", app_merged_df[i].Product_Name)) = 4

\* every segment of the request has too little history for its endpoint
AllTooShort ==
    \/ /\ route = "predict_category_sales"
       /\ \A i \in 1..Len(app_merged_df):
             ~IsNull(app_merged_df[i].Category) =>
                 Cardinality(SegmentMonths("Category", app_merged_df[i].Category)) < 10
    \/ /\ route = "predict_product_demand"
       /\ \A i \in 1..Len(app_merged_df):
             ~IsNull(app_merged_df[i].Product_Name) =>
                 Cardinality(SegmentMonths("Product_Name", app_merged_df[i].Product_Name)) < 6

\* C12: when every segment of a per-segment request is skipped for too
\* little history, the request is answered with a success payload whose
\* predictions list is empty, not with an error payload.
C12_EmptyBatchSucceeds ==
    (hpc = "done" /\ AllTooShort) => (Succeeded /\ response.predictions = <<>>)

\* the months in which there are orders
OrderMonths == {app_orders_df[i].Date : i \in 1..Len(app_orders_df)}

\* C13: when the monthly series of predict_sales has at most 4 periods, so
\* that no training row is left, the request is not answered with an error
\* payload and failure status.
C13_ShortHistoryNoError ==
    (route = "predict_sales" /\ hpc = "done" /\ Cardinality(OrderMonths) <= 4) =>
        "error" \notin DOMAIN response

\* the merged rows of a segment
SegmentRowsOf(col, key) == {j \in 1..Len(app_merged_df): app_merged_df[j][col] = key}

\* a segment with enough history whose amounts all fit a float32: its
\* forecast raises nothing
Forecastable(col, key, value_col, least) ==
    /\ Cardinality(SegmentMonths(col, key)) >= least
    /\ \A j \in SegmentRowsOf(col, key): app_merged_df[j][value_col] <= Float32Max

\* a segment with enough history and an amount that does not fit a float32:
\* its forecast raises
Failing(col, key, value_col, least) ==
    /\ Cardinality(SegmentMonths(col, key)) >= least
    /\ \E j \in SegmentRowsOf(col, key): app_merged_df[j][value_col] > Float32Max

\* C14: the failure of one segment is independent of the others: when the
\* request is answered, every segment whose own forecast raises nothing is
\* listed in the predictions of the response, also when the forecast of
\* another segment raised.
C14_SegmentsIndependent ==
    hpc = "done" =>
        /\ route = "predict_category_sales" =>
              \A i \in 1..Len(app_merged_df):
                  (/\ ~IsNull(app_merged_df[i].Category)
                   /\ Forecastable("Category", app_merged_df[i].Category, "Net_Price", 10)) =>
                      /\ "predictions" \in DOMAIN response
                      /\ \E j \in 1..Len(response.predictions):
                            response.predictions[j].category = app_merged_df[i].Category
        /\ route = "predict_product_demand" =>
              \A i \in 1..Len(app_merged_df):
                  (/\ ~IsNull(app_merged_df[i].Product_Name)
                   /\ Forecastable("Product_Name", app_merged_df[i].Product_Name,
                                   "Quantity", 6)) =>
                      /\ "predictions" \in DOMAIN response
                      /\ \E j \in 1..Len(response.predictions):
                            response.predictions[j].product_name =
                                app_merged_df[i].Product_Name

\* a request on data without a failing segment lists every forecastable
\* segment; used to see that C14 fails only through a raising segment
C14_HoldsWithoutFailure ==
    (hpc = "done" /\ \A i \in 1..Len(app_merged_df):
                        /\ ~Failing("Category", app_merged_df[i].Category, "Net_Price", 10)
                        /\ ~Failing("Product_Name", app_merged_df[i].Product_Name,
                                    "Quantity", 6))
        => C14_SegmentsIndependent

\* the two outcomes of a forecast request
IsErrorPayload(r) == DOMAIN r = {"error", "status"} /\ r.status = 500

IsSuccessPayload(r) ==
    /\ "error" \notin DOMAIN r
    /\ "status" \notin DOMAIN r
    /\ \/ {"predicted_revenue", "predicted_month", "accuracy"} \subseteq DOMAIN r
       \/ DOMAIN r = {"predictions", "predicted_month"}

\* the rest of C15: an answered request has left its handler for good, and
\* the server takes the next request
ServedOnceAndOn ==
    /\ hpc \notin {"off", "done"} => rpc = "handler"
    /\ response # <<>> => served > 0
    /\ (rpc = "idle" /\ served < MaxRequests) => ENABLED Request
    /\ "orders_df" \in app_attrs => app_orders_df = csv_orders
    /\ "merged_df" \in app_attrs =>
          app_merged_df = LeftMerge(csv_orders, DropDuplicates(csv_products))

\* C15: every request to a forecast endpoint ends in exactly one of two
\* outcomes, a success payload or the payload {'error': message} with status
\* 500; after either the handler is left for good (no retry), the loaded
\* tables are as they were, and the server takes the next request.
C15_OneOutcomePerRequest ==
    /\ response # <<>> =>
          /\ IsErrorPayload(response) \/ IsSuccessPayload(response)
          /\ ~(IsErrorPayload(response) /\ IsSuccessPayload(response))
    /\ ServedOnceAndOn

\* what does hold: a request that gets as far as its handler ends in one of
\* the two outcomes
C15_HoldsInsideHandlers ==
    /\ (response # <<>> /\ hpc = "done" /\ rpc = "idle" /\ "traceback" \notin DOMAIN response) =>
          /\ IsErrorPayload(response) \/ IsSuccessPayload(response)
          /\ ~(IsErrorPayload(response) /\ IsSuccessPayload(response))
    /\ "traceback" \in DOMAIN response => "merged_df" \notin app_attrs
    /\ ServedOnceAndOn

----------------------------------------------------------------------------
(* Claims about the loaded data *)

\* the three process-wide tables and the attributes that hold them
Tables3 == <<app_attrs, app_orders_df, app_products_df, app_merged_df>>

\* C16: over any sequence of requests the files are read exactly once, while
\* the first request is served: a request that was answered found the three
\* tables loaded, a read starts only with nothing loaded and before any
\* answer, and once the merged table is set no step changes the tables.
C16_LoadedOnce ==
    /\ [](served > 0 => {"orders_df", "products_df", "merged_df"} \subseteq app_attrs)
    /\ [][/\ (rpc' = "read_orders" /\ rpc # "read_orders") => (app_attrs = {} /\ served = 0)
          /\ Tables3' # Tables3 => served = 0
          /\ app_attrs \subseteq app_attrs'
          /\ "merged_df" \in app_attrs => Tables3' = Tables3]_vars

\* a second request has been answered from the tables the first one loaded
C16_Witness ==
    /\ served = 2
    /\ rpc = "idle"
    /\ app_attrs = {"orders_df", "products_df", "merged_df"}
    /\ app_orders_df = csv_orders
    /\ Len(app_merged_df) = Len(csv_orders)

\* the categories and the quarters that occur somewhere in the merged data
CategoriesPresent ==
    {app_merged_df[i].Category : i \in 1..Len(app_merged_df)} \ {NaN}

QuartersPresent ==
    {app_merged_df[i].Quarter : i \in 1..Len(app_merged_df)} \ {NaN}

\* the sum of the net prices of the orders of a category in a quarter
PairRevenue(c, q) ==
    LET of == SelectSeq(app_merged_df, LAMBDA r: r.Category = c /\ r.Quarter = q)
    IN  SumSeq([i \in 1..Len(of) |-> of[i].Net_Price])

\* the heatmap has a cell for the pair, and the cell holds v
HasCell(c, q, v) ==
    \E i \in 1..Len(response.y): \E j \in 1..Len(response.x):
        /\ response.y[i] = c
        /\ Num(response.x[j]) = q
        /\ response.z[i][j] = Num(v)

\* C17: the heatmap has a cell for every pair of a category and a quarter
\* that each occur somewhere in the merged data; the cell holds the sum of
\* the net prices of the pair's orders, 0 when the pair has none.
C17_HeatmapComplete ==
    (served > 0 /\ rpc = "idle") =>
        \A c \in CategoriesPresent: \A q \in QuartersPresent:
            HasCell(c, q, PairRevenue(c, q))

\* what does hold: the same for the categories and quarters of the rows that
\* have both a category and a quarter
C17_HoldsForGroupedKeys ==
    (served > 0 /\ rpc = "idle") =>
        LET both == {i \in 1..Len(app_merged_df):
                        ~IsNull(app_merged_df[i].Category) /\ ~IsNull(app_merged_df[i].Quarter)}
        IN  \A c \in {app_merged_df[i].Category : i \in both}:
                \A q \in {app_merged_df[i].Quarter : i \in both}:
                    HasCell(c, q, PairRevenue(c, q))

----------------------------------------------------------------------------
(* Claims about the feature vector of the next period *)

\* the actual values of the period series, oldest first
Actuals == [pos \in 1..Len(monthly_data) |-> TargetAt(pos)]

\* the sum of the last w actual values, all of them when there are fewer
TrailingSum(w) ==
    LET n == Len(monthly_data)
        from == IF n > w THEN n - w + 1 ELSE 1
    IN  SumSeq(SubSeq(Actuals, from, n))

TrailingCount(w) == IF Len(monthly_data) > w THEN w ELSE Len(monthly_data)

\* C18: the feature vector of the next period carries the actuals forward:
\* its lag_1, lag_2 and lag_3 are the target values of the last period, of
\* the one before and of the one before that, whatever the model predicted.
C18_LagsCarriedForward ==
    next_features # <<>> =>
        /\ next_features.lag_1 = Num(TargetAt(Len(monthly_data)))
        /\ next_features.lag_2 = Num(TargetAt(Len(monthly_data) - 1))
        /\ next_features.lag_3 = Num(TargetAt(Len(monthly_data) - 2))
        /\ next_features.lag_1 = Num(df_features[Len(df_features)].Revenue)
        /\ next_features.lag_2 = df_features[Len(df_features)].lag_1
        /\ next_features.lag_3 = df_features[Len(df_features)].lag_2

\* a next feature vector whose three lags differ from their neighbours has
\* been built after the model predicted a test row with another value
C18_Witness ==
    /\ hpc = "done"
    /\ next_features # <<>>
    /\ next_features.lag_1 # next_features.lag_2
    /\ next_features.lag_2 # next_features.lag_3
    /\ \E i \in 1..Len(test): metrics.y_pred_test[i] # test[i].Revenue
    /\ response.predicted_revenue # TargetAt(Len(monthly_data))

\* C19: rolling_mean_3 and rolling_mean_6 of the next feature vector are the
\* means of the last 3 and of the last 6 actual values of the whole period
\* series, of all of them when the series is shorter.
C19_RollingOverWholeSeries ==
    next_features # <<>> =>
        /\ next_features.rolling_mean_3.n * TrailingCount(3) =
               TrailingSum(3) * next_features.rolling_mean_3.d
        /\ next_features.rolling_mean_6.n * TrailingCount(6) =
               TrailingSum(6) * next_features.rolling_mean_6.d

\* what does hold: the rolling means are taken over the last 3 and the last 6
\* rows of the truncated feature table, which lacks the first three periods
C19_HoldsOverFeatureRows ==
    next_features # <<>> =>
        LET n == Len(df_features)
            last(w) == SubSeq(RevenueOf(df_features), IF n > w THEN n - w + 1 ELSE 1, n)
        IN  /\ next_features.rolling_mean_3.n * Len(last(3)) =
                   SumSeq(last(3)) * next_features.rolling_mean_3.d
            /\ next_features.rolling_mean_6.n * Len(last(6)) =
                   SumSeq(last(6)) * next_features.rolling_mean_6.d

\* the column a per-segment endpoint forecasts
ValueColumn == IF route = "predict_product_demand" THEN "Quantity" ELSE "Revenue"

\* in the per-segment endpoints too the lags of the next feature vector are
\* the last three values of the segment's period series
\* (a segment that is skipped leaves the vector of the segment before it)
C18_HoldsInBatch ==
    [][(route # "predict_sales" /\ next_features' # next_features /\ next_features' # <<>>) =>
        /\ next_features'.lag_1 = Num(monthly_data'[Len(monthly_data')][ValueColumn])
        /\ next_features'.lag_2 = Num(monthly_data'[Len(monthly_data') - 1][ValueColumn])
        /\ next_features'.lag_3 = Num(monthly_data'[Len(monthly_data') - 2][ValueColumn])]_vars

----------------------------------------------------------------------------
(* Claims about the period label of a batch response *)

\* the last month in which a segment has orders
LastMonth(months) == CHOOSE m \in months: \A other \in months: other <= m

\* C20: in a batch response that lists predictions, predicted_month is the
\* month after the last period of every listed segment.
C20_LabelFitsEverySegment ==
    (route # "predict_sales" /\ Succeeded) =>
        \A i \in 1..Len(response.predictions):
            response.predicted_month =
                Month(LastMonth(EntryMonths(response.predictions[i])) + 1)

\* what does hold: the label is the month after the last period of the
\* segment that was forecast last
C20_HoldsForLastSegment ==
    (route # "predict_sales" /\ Succeeded /\ response.predictions # <<>>) =>
        LET listed == response.predictions
        IN  response.predicted_month =
                Month(LastMonth(EntryMonths(listed[Len(listed)])) + 1)

----------------------------------------------------------------------------
(* Claims about the training rows of the per-segment endpoints *)

\* a pass of the loop of a per-segment endpoint has listed a segment
SegmentListed ==
    /\ route' # "predict_sales"
    /\ Len(predictions') > Len(predictions)

\* C21: in the per-segment endpoints the model of every listed segment is
\* fitted on the chronologically first 80% of the segment's feature rows
\* only, the last 20% being held out.
C21_SegmentHoldsOutTail ==
    [][SegmentListed => train' = TrainRows(df_features')]_vars

\* what does hold: the model of a listed segment is fitted on every feature
\* row of the segment, the last one included, and nothing is held out
C21_HoldsFittedOnAllRows ==
    [][SegmentListed =>
        /\ train' = df_features'
        /\ test' = <<>>
        /\ train'[Len(train')].Date = monthly_data'[Len(monthly_data')].Date]_vars

----------------------------------------------------------------------------
(* Claims about a load that fails partway *)

\* every table of the process is set
FullyLoaded == {"orders_df", "products_df", "merged_df"} \subseteq app_attrs

\* C22: between requests, whatever load attempts have failed, the guard
\* attribute orders_df is set only if products_df and merged_df are set too,
\* so that a request after a failed load attempts the load again.
C22_GuardImpliesLoaded ==
    (rpc = "idle" /\ "orders_df" \in app_attrs) => FullyLoaded

\* what does hold: the guard attribute implies the other two between requests
\* when the products file can be read, and a load that fails at the orders
\* file sets nothing
C22_HoldsWhenProductsReadable ==
    /\ (csv_products # Unreadable /\ rpc = "idle" /\ "orders_df" \in app_attrs) => FullyLoaded
    /\ csv_orders = Unreadable => app_attrs = {}

\* after a load that failed at the products file the guard lets the next
\* request through to its handler without the merged table
C22_HoldsHandlerWithoutMerged ==
    [][(rpc = "load_data" /\ app_attrs = {"orders_df"}) => rpc' = "handler"]_vars

----------------------------------------------------------------------------
(* dashboard/app.py under app.run(debug=True, port=5000): the development   *)
(* server answers every request in a thread of its own, and the steps of    *)
(* load_data of two requests interleave line by line                        *)

\* the server starts with nothing loaded and one request on each thread
ThreadedInit ==
    /\ CleanerIdle
    /\ HandlerIdle
    /\ csv_orders \in Tables(CsvOrderRows, MaxRows)
    /\ csv_products \in Tables(CsvProductRows, MaxProducts)
    /\ app_attrs = {}
    /\ app_orders_df = <<>>
    /\ app_products_df = <<>>
    /\ app_merged_df = <<>>
    /\ rpc = "off"
    /\ served = 0
    /\ response = <<>>
    /\ threads = [t \in Threads |-> "idle"]

\* a step of load_data on thread t that moves it to a position
ThreadStep(t, at, next) ==
    /\ threads[t] = at
    /\ threads' = [threads EXCEPT ![t] = next]
    /\ UNCHANGED <<cleaner_vars, handler_vars, csv_orders, csv_products, rpc>>

\* the request of thread t arrives; before_request runs load_data first
ThreadRequest(t) ==
    /\ ThreadStep(t, "idle", "load_data")
    /\ UNCHANGED <<app_attrs, app_orders_df, app_products_df, app_merged_df, served, response>>

\* line 21: if not hasattr(app, 'orders_df')
ThreadGuard(t) ==
    /\ ThreadStep(t, "load_data",
                  IF "orders_df" \in app_attrs THEN "handler" ELSE "read_orders")
    /\ UNCHANGED <<app_attrs, app_orders_df, app_products_df, app_merged_df, served, response>>

\* line 26
ThreadReadOrders(t) ==
    /\ ThreadStep(t, "read_orders", "read_products")
    /\ app_orders_df' = csv_orders
    /\ app_attrs' = app_attrs \cup {"orders_df"}
    /\ UNCHANGED <<app_products_df, app_merged_df, served, response>>

\* line 27
ThreadReadProducts(t) ==
    /\ ThreadStep(t, "read_products", "drop_duplicates")
    /\ app_products_df' = csv_products
    /\ app_attrs' = app_attrs \cup {"products_df"}
    /\ UNCHANGED <<app_orders_df, app_merged_df, served, response>>

\* line 29
ThreadDropDuplicates(t) ==
    /\ ThreadStep(t, "drop_duplicates", "merge")
    /\ app_products_df' = DropDuplicates(app_products_df)
    /\ UNCHANGED <<app_attrs, app_orders_df, app_merged_df, served, response>>

\* line 32
ThreadMerge(t) ==
    /\ ThreadStep(t, "merge", "handler")
    /\ app_merged_df' = LeftMerge(app_orders_df, app_products_df)
    /\ app_attrs' = app_attrs \cup {"merged_df"}
    /\ UNCHANGED <<app_orders_df, app_products_df, served, response>>

\* lines 39-54: the overview endpoint reads app.orders_df, app.merged_df and
\* app.products_df outside any try; an attribute that is not set yet raises
\* AttributeError, which the framework answers
ThreadOverview(t) ==
    /\ ThreadStep(t, "handler", "done")
    /\ response' = IF {"orders_df", "merged_df", "products_df"} \subseteq app_attrs
                   THEN [total_orders |-> Len(app_orders_df),
                         total_products |-> NUnique(app_products_df, "Product_ID"),
                         total_customers |-> Len(app_orders_df)]
                   ELSE Uncaught("'Flask' object has no attribute")
    /\ served' = served + 1
    /\ UNCHANGED <<app_attrs, app_orders_df, app_products_df, app_merged_df>>

ThreadedNext ==
    \E t \in Threads:
        \/ ThreadRequest(t)
        \/ ThreadGuard(t)
        \/ ThreadReadOrders(t)
        \/ ThreadReadProducts(t)
        \/ ThreadDropDuplicates(t)
        \/ ThreadMerge(t)
        \/ ThreadOverview(t)

SpecThreaded == ThreadedInit /\ [][ThreadedNext]_vars

----------------------------------------------------------------------------
(* Claims about two requests in flight at process start *)

\* the positions of a thread that has passed the guard and is loading
Loading == {"read_orders", "read_products", "drop_duplicates", "merge"}

\* C23: with two requests in flight at process start the load runs at most
\* once, and no handler runs while merged_df or products_df is unset.
C23_LoadOnceBeforeHandlers ==
    /\ Cardinality({t \in Threads: threads[t] \in Loading}) <= 1
    /\ \A t \in Threads:
           threads[t] = "handler" => {"products_df", "merged_df"} \subseteq app_attrs

\* what does hold: a handler runs only when orders_df is set, and a request
\* that finds nobody loading or loaded starts the load
C23_HoldsOrdersSet ==
    \A t \in Threads: threads[t] \in {"handler", "done"} => "orders_df" \in app_attrs

----------------------------------------------------------------------------
(* Claims about the tables of the process after loading *)

\* C24: once the data is loaded, the orders, products and merged tables of
\* the process are, after any sequence of requests, what the load made of
\* the two files: no handler changes their rows, columns or values.
C24_TablesAsLoaded ==
    FullyLoaded =>
        /\ app_orders_df = csv_orders
        /\ app_products_df = DropDuplicates(csv_products)
        /\ app_merged_df = LeftMerge(csv_orders, DropDuplicates(csv_products))

\* a request has been answered and the next one, for predict_sales, has
\* added its YearMonth column and aggregated
C24_Witness ==
    /\ FullyLoaded
    /\ served >= 1
    /\ "x" \in DOMAIN response
    /\ route = "predict_sales"
    /\ hpc = "prepare"
    /\ monthly_data # <<>>

\* the same as a frame condition on every step, with the locals of a forecast
\* handler fresh at every entry
C24_HoldsEveryStep ==
    [][/\ FullyLoaded => UNCHANGED <<app_attrs, app_orders_df, app_products_df, app_merged_df>>
       /\ (hpc \in {"off", "done"} /\ hpc' \notin {"off", "done"}) =>
              /\ monthly_data' = <<>>
              /\ df_features' = <<>>
              /\ predictions' = <<>>
              /\ next_month_date' = Unbound]_vars

----------------------------------------------------------------------------
(* Claims about the entries of predict_product_demand *)

\* the growth rate (a - b) / b * 100 is the fraction rate
IsGrowthOf(rate, a, b) == rate.k = "frac" /\ rate.n * b = 100 * (a - b) * rate.d

\* C25: every entry of predict_product_demand reports a predicted_quantity
\* that is not negative and a growth_rate that is
\* (predicted_quantity - last_month_quantity) / last_month_quantity * 100 of
\* the reported values when last_month_quantity > 0, and 0 when it is 0.
C25_GrowthFitsReportedQuantity ==
    route = "predict_product_demand" =>
        \A i \in 1..Len(predictions):
            LET entry == predictions[i]
            IN  /\ entry.predicted_quantity >= 0
                /\ entry.last_month_quantity > 0 =>
                       IsGrowthOf(entry.growth_rate, entry.predicted_quantity,
                                  entry.last_month_quantity)
                /\ entry.last_month_quantity = 0 => entry.growth_rate = Frac(0, 1)

\* what does hold: the reported quantity is never negative, and the growth
\* rate is that of the reported values or, when the reported quantity is 0,
\* that of some value below zero, which the clamp has replaced
C25_HoldsForUnclampedValue ==
    route = "predict_product_demand" =>
        \A i \in 1..Len(predictions):
            LET entry == predictions[i]
            IN  /\ entry.predicted_quantity >= 0
                /\ entry.last_month_quantity > 0 =>
                       \/ IsGrowthOf(entry.growth_rate, entry.predicted_quantity,
                                     entry.last_month_quantity)
                       \/ /\ entry.predicted_quantity = 0
                          /\ entry.growth_rate.n * entry.last_month_quantity <
                                 -100 * entry.last_month_quantity * entry.growth_rate.d

====
